---------------------------- MODULE Spec2Model ----------------------------
(***************************************************************************)
(* A model of publish.py, the workshop publishing script: the metadata     *)
(* override merger, the notebook processor and the index builder.          *)
(*                                                                         *)
(* Python values are kept with their type, [kind, val], so that the        *)
(* isinstance tests and the truthiness tests of the code can be modelled.  *)
(* A Python str is a tuple of one-character strings, so that glob matching *)
(* and str comparison can be computed character by character.              *)
(***************************************************************************)
EXTENDS Integers, Sequences, FiniteSets, TLC

VARIABLES
    config,        \* the loaded workshop configuration (a dict: key -> value)
    rules,         \* the override rules the configuration declares, in order
    shape,         \* the config shape the rules are written in
    file_path,     \* the path of the file being processed, relative to cwd
    meta,          \* the file's own (embedded) metadata
    merged,        \* apply_metadata_overrides(file_path, meta, config)
    overrides,     \* the (pattern, values) pairs that call iterated over
    applied,       \* indices of the overrides deep-merged by that call
    merged_again,  \* apply_metadata_overrides(file_path, merged, config)
    merged_patch,  \* the file's metadata merged with the rules' combined patch
    notebook,      \* the notebook read from file_path: its cells and metadata
    fs,            \* the source files that exist, by path relative to cwd
    out_files,     \* the files written under the output directory: path -> content
    ret,           \* what process_notebook returned
    processed_items, \* the summary records main has collected
    exit_code,     \* the status of sys.exit, None while the process runs
    args,          \* the command line flags of the run
    env,           \* what the run finds outside: platform, tools, repository
    sources,       \* what the notebooks and markdown files hold: path -> content
    attempts,      \* the converters convert_pptx_to_pdf has run, in order
    todo,          \* the entries of config['sections'] main has yet to visit
    repo,          \* the version-control state of the caller's repository
    pushes,        \* the pushes made to the remote, in order
    pc             \* the step the run is at

\* the merger's harness
mergeVars == <<rules, shape, merged_again, merged_patch>>
\* one file's metadata
metaVars == <<file_path, meta, merged, overrides, applied>>
\* the publishing run
runVars == <<notebook, fs, out_files, ret, processed_items, exit_code>>

\* the surroundings of the run and its version-control stage
mainVars == <<args, env, sources, attempts, todo, repo, pushes>>

vars == <<config, mergeVars, metaVars, runVars, mainVars, pc>>

\* A run on Linux without converters and rasterizers, outside a git
\* repository, with no large file.
PlainEnv ==
    [platform |-> "linux",
     osascript |-> "raise", pptxtopdf |-> "raise",
     soffice |-> "raise", unoconv |-> "raise",
     magick |-> "fail", pdftoppm |-> "fail",
     newer |-> {},
     git |-> "none", remote |-> FALSE, lfs |-> "fail", track |-> "ok",
     large |-> {},
     switch |-> "ok", add |-> "ok", commit |-> "ok", push |-> "ok",
     tmp_init |-> "ok", tmp_commit |-> "ok", tmp_push |-> "ok"]

\* The caller's repository as the run finds it.
CleanRepo ==
    [branch |-> <<"m", "a", "i", "n">>, staged |-> FALSE, commits |-> 0,
     gitattributes |-> {}, lfs_installed |-> FALSE]

\* The parts of the state a run of one function does not touch.
Undisturbed ==
    /\ args = [commit |-> FALSE, keep_temp |-> FALSE]
    /\ env = PlainEnv
    /\ sources = << >>
    /\ attempts = << >>
    /\ todo = << >>
    /\ repo = CleanRepo
    /\ pushes = << >>

----------------------------------------------------------------------------
(* Python values *)

None == [kind |-> "none", val |-> 0]
Str(s) == [kind |-> "str", val |-> s]
Num(n) == [kind |-> "int", val |-> n]
Bool(b) == [kind |-> "bool", val |-> b]
List(q) == [kind |-> "list", val |-> q]
Dict(f) == [kind |-> "dict", val |-> f]
\* A dict whose iteration order the code depends on: its items, in order.
Mapping(items) == [kind |-> "mapping", val |-> items]

EmptyDict == [k \in {} |-> None]

isinstance_dict(v) == v.kind \in {"dict", "mapping"}

\* bool(v)
Truthy(v) ==
    CASE v.kind = "none" -> FALSE
      [] v.kind = "bool" -> v.val
      [] v.kind = "int" -> v.val # 0
      [] v.kind = "str" -> Len(v.val) > 0
      [] v.kind = "list" -> Len(v.val) > 0
      [] v.kind = "mapping" -> Len(v.val) > 0
      [] v.kind = "dict" -> DOMAIN v.val # {}

\* a or b
PyOr(a, b) == IF Truthy(a) THEN a ELSE b

\* Body applied to a value that is computed once.
Bind(value, Body(_)) == CHOOSE result \in {Body(v) : v \in {value}} : TRUE

\* d.get(k) of a dict value d
Get(d, k) == IF k \in DOMAIN d.val THEN d.val[k] ELSE None

\* d.get(k, default)
GetOr(d, k, default) == IF k \in DOMAIN d.val THEN d.val[k] ELSE default

\* d[k] = v on the keys and values f of a dict
Put(f, k, v) == [x \in DOMAIN f \cup {k} |-> IF x = k THEN v ELSE f[x]]

----------------------------------------------------------------------------
(* Characters, in code point order *)

Alphabet ==
    <<" ", "!", "*", "-", ".", "/", "0", "1", "2", "3", "4", "5", "6", "7",
      "8", "9", "?", "[", "]", "_", "a", "b", "c", "d", "e", "f", "g", "h",
      "i", "j", "k", "l", "m", "n", "o", "p", "q", "r", "s", "t", "u", "v",
      "w", "x", "y", "z">>

ord(c) == CHOOSE i \in 1..Len(Alphabet) : Alphabet[i] = c

\* Path(p).name: what follows the last "/"
RECURSIVE PathName(_)
PathName(p) ==
    IF \E i \in 1..Len(p) : p[i] = "/"
    THEN PathName(SubSeq(p, (CHOOSE i \in 1..Len(p) : p[i] = "/") + 1, Len(p)))
    ELSE p

----------------------------------------------------------------------------
(* fnmatch.fnmatch(name, pat) on a POSIX system (normcase is the identity) *)

\* The index of the "]" closing the class opened at pat[j] = "[", 0 if none.
ClassEnd(pat, j) ==
    LET n == Len(pat)
        k1 == IF j + 1 <= n /\ pat[j + 1] = "!" THEN j + 2 ELSE j + 1
        k2 == IF k1 <= n /\ pat[k1] = "]" THEN k1 + 1 ELSE k1
        closing == {k \in k2..n : pat[k] = "]"}
    IN IF closing = {} THEN 0
       ELSE CHOOSE k \in closing : \A m \in closing : k <= m

\* c is matched by the character class whose text is stuff
InClass(c, stuff) ==
    LET negated == stuff[1] = "!"
        body == IF negated THEN Tail(stuff) ELSE stuff
        n == Len(body)
        isRange(t) == body[t] = "-" /\ 1 < t /\ t < n
        member ==
            \E t \in 1..n :
                \/ ~isRange(t) /\ body[t] = c
                \/ isRange(t) /\ ord(body[t - 1]) <= ord(c)
                              /\ ord(c) <= ord(body[t + 1])
    IN IF n = 0 THEN TRUE
       ELSE IF negated THEN ~member ELSE member

RECURSIVE GlobMatch(_, _, _, _)
GlobMatch(name, i, pat, j) ==
    IF j > Len(pat) THEN i > Len(name)
    ELSE
        CASE pat[j] = "*" ->
                \/ GlobMatch(name, i, pat, j + 1)
                \/ i <= Len(name) /\ GlobMatch(name, i + 1, pat, j)
          [] pat[j] = "?" ->
                i <= Len(name) /\ GlobMatch(name, i + 1, pat, j + 1)
          [] pat[j] = "[" /\ ClassEnd(pat, j) # 0 ->
                /\ i <= Len(name)
                /\ InClass(name[i], SubSeq(pat, j + 1, ClassEnd(pat, j) - 1))
                /\ GlobMatch(name, i + 1, pat, ClassEnd(pat, j) + 1)
          [] OTHER ->
                /\ i <= Len(name)
                /\ name[i] = pat[j]
                /\ GlobMatch(name, i + 1, pat, j + 1)

fnmatch(name, pat) == GlobMatch(name, 1, pat, 1)

----------------------------------------------------------------------------
(* The metadata override merger *)

\* The merge with lists extended instead of replaced.
RECURSIVE DeepMergeExtendingLists(_, _)
DeepMergeExtendingLists(base, override) ==
    LET b == IF base.kind = "dict" THEN base.val ELSE EmptyDict
        o == IF Truthy(override) THEN override.val ELSE EmptyDict
    IN Dict([k \in DOMAIN b \cup DOMAIN o |->
            IF k \notin DOMAIN o THEN b[k]
            ELSE IF o[k].kind = "dict" /\ k \in DOMAIN b /\ b[k].kind = "dict"
                 THEN DeepMergeExtendingLists(b[k], o[k])
            ELSE IF o[k].kind = "list" /\ k \in DOMAIN b /\ b[k].kind = "list"
                 THEN List(b[k].val \o o[k].val)
            ELSE o[k]])

\* The merge with the nested mappings replaced instead of merged.
ShallowMerge(base, override) ==
    LET b == IF base.kind = "dict" THEN base.val ELSE EmptyDict
        o == IF Truthy(override) THEN override.val ELSE EmptyDict
    IN Dict([k \in DOMAIN b \cup DOMAIN o |->
            IF k \in DOMAIN o THEN o[k] ELSE b[k]])

RECURSIVE _deep_merge(_, _)
_deep_merge(base, override) ==
    LET b == IF base.kind = "dict" THEN base.val ELSE EmptyDict
        o == IF Truthy(override) THEN override.val ELSE EmptyDict
    IN Dict([k \in DOMAIN b \cup DOMAIN o |->
            IF k \notin DOMAIN o THEN b[k]
            ELSE IF o[k].kind = "dict" /\ k \in DOMAIN b /\ b[k].kind = "dict"
                 THEN _deep_merge(b[k], o[k])
            ELSE o[k]])

PatternKeys == {"pattern", "file", "match"}

\* The (pattern, values) pair one item of a list-shaped config yields, << >>
\* when it yields none.
IterListItem(item) ==
    IF item.kind # "dict" THEN << >>
    ELSE
        LET pattern == PyOr(PyOr(Get(item, "pattern"), Get(item, "file")),
                            Get(item, "match"))
            given == PyOr(Get(item, "values"), Get(item, "merge"))
            values ==
                IF ~Truthy(given)
                THEN Dict([k \in DOMAIN item.val \ PatternKeys |-> item.val[k]])
                ELSE given
        IN IF Truthy(pattern) /\ isinstance_dict(values)
           THEN << <<pattern, values>> >>
           ELSE << >>

\* The (pattern, values) pair one item of a mapping-shaped config yields.
IterMappingItem(item) ==
    IF isinstance_dict(item[2]) THEN << <<item[1], item[2]>> >> ELSE << >>

RECURSIVE IterItems(_, _, _)
IterItems(items, i, isMapping) ==
    IF i > Len(items) THEN << >>
    ELSE (IF isMapping THEN IterMappingItem(items[i])
          ELSE IterListItem(items[i]))
         \o IterItems(items, i + 1, isMapping)

\* list(_iter_metadata_overrides(config))
_iter_metadata_overrides(cfg) ==
    LET md == PyOr(Get(cfg, "metadata_overrides"), Get(cfg, "metadata"))
    IN IF ~Truthy(md) THEN << >>
       ELSE IF md.kind = "mapping" THEN IterItems(md.val, 1, TRUE)
       ELSE IF md.kind = "list" THEN IterItems(md.val, 1, FALSE)
       ELSE << >>

\* The test of line 305 with the bare-name alternative left out.
OverrideMatchesRelOnly(path, pattern) == fnmatch(path, pattern.val)

\* Line 305: the pattern matches the path relative to cwd or the bare name.
OverrideMatches(path, pattern) ==
    \/ fnmatch(path, pattern.val)
    \/ fnmatch(PathName(path), pattern.val)

\* The indices of the overrides whose values the loop of lines 303-306 merges.
MergedOverrides(path, cfg) ==
    LET pairs == _iter_metadata_overrides(cfg)
    IN {i \in 1..Len(pairs) : OverrideMatches(path, pairs[i][1])}

\* The loop of lines 303-306 leaving at the first override that matches.
MergeFirstMatchOnly(acc, pairs, i, path) ==
    LET matching == {j \in i..Len(pairs) : OverrideMatches(path, pairs[j][1])}
    IN IF matching = {} THEN acc
       ELSE _deep_merge(acc, pairs[CHOOSE j \in matching :
                                      \A m \in matching : j <= m][2])

RECURSIVE MergeFrom(_, _, _, _)
MergeFrom(acc, pairs, i, path) ==
    IF i > Len(pairs) THEN acc
    ELSE MergeFrom(IF OverrideMatches(path, pairs[i][1])
                   THEN _deep_merge(acc, pairs[i][2])
                   ELSE acc,
                   pairs, i + 1, path)

apply_metadata_overrides(path, m, cfg) ==
    MergeFrom(IF Truthy(m) THEN m ELSE Dict(EmptyDict),
              _iter_metadata_overrides(cfg), 1, path)


----------------------------------------------------------------------------
(* The inputs of the merger: files, patterns, metadata and override rules *)

MaxRules == 2

Path_s1_intro ==
    <<"s", "e", "c", "t", "i", "o", "n", "1", "/",
      "i", "n", "t", "r", "o", ".", "i", "p", "y", "n", "b">>
Path_s2_intro ==
    <<"s", "e", "c", "t", "i", "o", "n", "2", "/",
      "i", "n", "t", "r", "o", ".", "i", "p", "y", "n", "b">>
Pat_s1_ipynb ==
    <<"s", "e", "c", "t", "i", "o", "n", "1", "/",
      "*", ".", "i", "p", "y", "n", "b">>
Pat_intro == <<"i", "n", "t", "r", "o", ".", "i", "p", "y", "n", "b">>
Pat_class ==
    <<"s", "e", "c", "t", "i", "o", "n", "[", "!", "1", "]", "/",
      "i", "n", "t", "r", "o", ".", "?", "p", "y", "n", "b">>

Files == {Path_s1_intro, Path_s2_intro}
Patterns == {Pat_s1_ipynb, Pat_intro, Pat_class}

D1(k, v) == Dict(k :> v)
D2(k1, v1, k2, v2) == Dict((k1 :> v1) @@ (k2 :> v2))

BaseMetas ==
    { Dict(EmptyDict),
      D2("title", Num(1), "extra", D1("w", Num(1))),
      D1("extra", Num(1)),
      D1("extra", D1("x", D2("z", Num(1), "w", Num(1)))),
      D1("extra", List(<<Num(1)>>)) }

RuleValues ==
    { Dict(EmptyDict),
      D2("title", Num(2), "extra", List(<<Num(2)>>)),
      D1("extra", D1("x", Num(1))),
      D1("extra", D2("x", D1("z", Num(2)), "y", Num(1))) }

Rules == {<<Str(p), v>> : p \in Patterns, v \in RuleValues}

RuleSeqs == UNION {[1..n -> Rules] : n \in 0..MaxRules}

Shapes == {"mapping", "list", "inline"}

\* A mapping has one entry per pattern.
Writable(rs, sh) ==
    sh = "mapping" => \A i, j \in 1..Len(rs) : rs[i][1] = rs[j][1] => i = j

\* The rules rs written in the config shape sh.
Written(rs, sh) ==
    CASE sh = "mapping" ->
            D1("metadata", Mapping(rs))
      [] sh = "list" ->
            D1("metadata_overrides",
               List([i \in 1..Len(rs) |->
                        D2("pattern", rs[i][1], "values", rs[i][2])]))
      [] sh = "inline" ->
            D1("metadata",
               List([i \in 1..Len(rs) |->
                        Dict(("pattern" :> rs[i][1]) @@ rs[i][2].val)]))

----------------------------------------------------------------------------
(* The merger applied to one file *)

InitMerge ==
    /\ rules \in RuleSeqs
    /\ shape \in Shapes
    /\ Writable(rules, shape)
    /\ config = Written(rules, shape)
    /\ file_path \in Files
    /\ meta \in BaseMetas
    /\ merged = None
    /\ overrides = << >>
    /\ applied = {}
    /\ merged_again = None
    /\ merged_patch = None
    /\ notebook = None
    /\ fs = {}
    /\ out_files = << >>
    /\ ret = None
    /\ processed_items = << >>
    /\ exit_code = None
    /\ Undisturbed
    /\ pc = "start"

ApplyOverrides ==
    /\ pc = "start"
    /\ overrides' = _iter_metadata_overrides(config)
    /\ applied' = MergedOverrides(file_path, config)
    /\ merged' = apply_metadata_overrides(file_path, meta, config)
    /\ pc' = "merged"
    /\ UNCHANGED <<mainVars, config, mergeVars, file_path, meta, runVars>>

\* The same rule set applied to the result of the first application.
ReapplyOverrides ==
    /\ pc = "merged"
    /\ merged_again' = apply_metadata_overrides(file_path, merged, config)
    /\ pc' = "remerged"
    /\ UNCHANGED <<mainVars, config, rules, shape, merged_patch, metaVars, runVars>>

\* Two matching rules replaced by the one rule that carries the deep merge of
\* their values, applied to the file's own metadata.
ApplyCombinedPatch ==
    /\ pc = "remerged"
    /\ Len(overrides) = 2
    /\ applied = {1, 2}
    /\ merged_patch' =
          apply_metadata_overrides(
              file_path, meta,
              D1("metadata",
                 Mapping(<< <<overrides[1][1],
                              _deep_merge(overrides[1][2], overrides[2][2])>> >>)))
    /\ pc' = "patched"
    /\ UNCHANGED <<mainVars, config, rules, shape, merged_again, metaVars, runVars>>

NextMerge == ApplyOverrides \/ ReapplyOverrides \/ ApplyCombinedPatch

SpecMerge == InitMerge /\ [][NextMerge]_vars

----------------------------------------------------------------------------
(* str operations *)

\* a < b for two str, as Python compares them: by code point, then by length
RECURSIVE StrLess(_, _)
StrLess(a, b) ==
    IF Len(b) = 0 THEN FALSE
    ELSE IF Len(a) = 0 THEN TRUE
    ELSE IF a[1] # b[1] THEN ord(a[1]) < ord(b[1])
    ELSE StrLess(Tail(a), Tail(b))

\* Path(p).parent, "." when p has one component
PathParent(p) ==
    LET slashes == {i \in 1..Len(p) : p[i] = "/"}
    IN IF slashes = {} THEN <<".">>
       ELSE SubSeq(p, 1, (CHOOSE i \in slashes : \A j \in slashes : j <= i) - 1)

\* Path(p).stem: the name without its last suffix
PathStem(p) ==
    LET name == PathName(p)
        dots == {i \in 2..Len(name) : name[i] = "."}
    IN IF dots = {} THEN name
       ELSE SubSeq(name, 1, (CHOOSE i \in dots : \A j \in dots : j <= i) - 1)

Slash == <<"/">>
Ext_ipynb == <<".", "i", "p", "y", "n", "b">>
Ext_answers == <<"-", "A", "N", "S", "W", "E", "R", "S", ".", "i", "p", "y", "n", "b">>
Ext_data_zip == <<"-", "d", "a", "t", "a", ".", "z", "i", "p">>
Ext_html == <<".", "h", "t", "m", "l">>
IndexHtml == <<"i", "n", "d", "e", "x", ".", "h", "t", "m", "l">>
DefaultTitle == <<"W", "o", "r", "k", "s", "h", "o", "p">>

----------------------------------------------------------------------------
(* Data archives: glob and create_data_zip *)

\* The components of a path.
PathParts(p) ==
    LET starts == {i \in 1..Len(p) : p[i] # "/" /\ (i = 1 \/ p[i - 1] = "/")}
        ends == {i \in 1..Len(p) : p[i] # "/" /\ (i = Len(p) \/ p[i + 1] = "/")}
        start(k) == CHOOSE i \in starts : Cardinality({j \in starts : j < i}) = k - 1
        end(k) == CHOOSE i \in ends : Cardinality({j \in ends : j < i}) = k - 1
    IN [k \in 1..Cardinality(starts) |-> SubSeq(p, start(k), end(k))]

\* The directories that hold the files, "." among them.
Dirs(files) ==
    {<<".">>} \cup
    UNION {{SubSeq(f, 1, i - 1) : i \in {j \in 2..Len(f) : f[j] = "/"}} :
              f \in files}

\* path is base_dir or lies below it
IsBelow(path, base_dir) ==
    \/ base_dir = <<".">>
    \/ path = base_dir
    \/ /\ Len(path) > Len(base_dir)
       /\ SubSeq(path, 1, Len(base_dir) + 1) = base_dir \o Slash

\* path.relative_to(base_dir), as a str: the text of path after base_dir
ArcName(path, base_dir) ==
    IF path = base_dir THEN <<".">>
    ELSE IF base_dir = <<".">> THEN path
    ELSE SubSeq(path, Len(base_dir) + 2, Len(path))

\* dir / name
PathJoin(dir, name) == IF dir = <<".">> THEN name ELSE dir \o Slash \o name

\* The entries of a directory.
Children(dir, files) ==
    {p \in (files \cup Dirs(files)) \ {<<".">>} : PathParent(p) = dir}

\* What "**" reaches below a directory: every entry no component of whose
\* path below dir starts with a dot.
Descendants(dir, files) ==
    {p \in (files \cup Dirs(files)) \ {dir} :
        /\ IsBelow(p, dir)
        /\ \A k \in 1..Len(PathParts(ArcName(p, dir))) :
              Head(PathParts(ArcName(p, dir))[k]) # "."}

Wildcard == <<"*", "*">>
DotDot == <<".", ".">>

\* One component of a glob pattern applied to the matches so far. A match is
\* the path as glob spells it and the entry that path leads to (at). A name
\* with a leading dot is matched only by a component with a leading dot.
GlobStep(matches, component, last, files) ==
    LET dirs == {m \in matches : m.at \in Dirs(files)}
    IN IF component = DotDot
       THEN {[spelling |-> PathJoin(m.spelling, DotDot), at |-> PathParent(m.at)] :
                m \in {d \in dirs : d.at # <<".">>}}
       ELSE IF component = Wildcard
       THEN dirs \cup
            UNION {{[spelling |-> PathJoin(m.spelling, ArcName(p, m.at)), at |-> p] :
                       p \in {d \in Descendants(m.at, files) :
                                 last \/ d \in Dirs(files)}} :
                      m \in dirs}
       ELSE UNION {{[spelling |-> PathJoin(m.spelling, PathName(p)), at |-> p] :
                       p \in {c \in Children(m.at, files) :
                                 /\ fnmatch(PathName(c), component)
                                 /\ Head(PathName(c)) = "."
                                        => Head(component) = "."}} :
                      m \in dirs}

RECURSIVE GlobWalk(_, _, _, _)
GlobWalk(matches, pat, j, files) ==
    IF j > Len(pat) THEN matches
    ELSE GlobWalk(GlobStep(matches, pat[j], j = Len(pat), files), pat, j + 1,
                  files)

\* glob(str(base_dir / pattern), recursive=True): the paths the pattern
\* matches, each as glob spells it, with the entry it leads to.
glob(base_dir, pattern, files) ==
    IF base_dir \notin Dirs(files) THEN {}
    ELSE GlobWalk({[spelling |-> base_dir, at |-> base_dir]},
                  PathParts(pattern), 1, files)

\* A set of matches as a list, in the str order of the spellings.
RECURSIVE SortedMatches(_)
SortedMatches(matches) ==
    IF matches = {} THEN << >>
    ELSE LET least == CHOOSE x \in matches :
                         \A y \in matches : ~StrLess(y.spelling, x.spelling)
         IN <<least>> \o SortedMatches(matches \ {least})

\* Line 553: one zipf.write
ZipEntry(match, base_dir) ==
    [file |-> match.at, source |-> match.spelling,
     arcname |-> ArcName(match.spelling, base_dir)]

\* Lines 535-554: the entries written for the patterns from the i-th on,
\* given the paths (str(file_path)) added so far.
RECURSIVE ZipFrom(_, _, _, _, _)
ZipFrom(data_patterns, i, base_dir, files, added_files) ==
    IF i > Len(data_patterns) THEN << >>
    ELSE LET matches == glob(base_dir, data_patterns[i].val, files)
             fresh == SortedMatches({m \in matches :
                                        m.spelling \notin added_files})
         IN [n \in 1..Len(fresh) |-> ZipEntry(fresh[n], base_dir)]
            \o ZipFrom(data_patterns, i + 1, base_dir, files,
                       added_files \cup {m.spelling : m \in matches})

\* Lines 530-556: the archive create_data_zip writes at zip_path.
create_data_zip(data_patterns, base_dir, files) ==
    [type |-> "zip",
     entries |-> ZipFrom(data_patterns, 1, base_dir, files, {})]

----------------------------------------------------------------------------
(* Slides: conversion, thumbnail and the embed snippet *)

\* Path(p).suffix: the last suffix of the name, with its dot
PathSuffix(p) ==
    LET name == PathName(p)
        dots == {i \in 2..Len(name) : name[i] = "."}
    IN IF dots = {} THEN << >>
       ELSE SubSeq(name, CHOOSE i \in dots : \A j \in dots : j <= i, Len(name))

Ext_pptx == <<".", "p", "p", "t", "x">>
Ext_pdf == <<".", "p", "d", "f">>
ThumbSuffix == <<"-", "t", "h", "u", "m", "b", ".", "p", "n", "g">>

\* What reading and writing files has come to: the source files, the PDFs
\* newer than their presentation, the files of the output directory, the
\* converters run, whether the process has exited (sys.exit(1)) and whether
\* an exception has been raised.
IO(files, newer, written, ran) ==
    [files |-> files, newer |-> newer, written |-> written, ran |-> ran,
     exited |-> FALSE, raised |-> FALSE]

\* Lines 694 and 729: the converters tried before soffice and unoconv.
Converters(platform) ==
    (IF platform = "darwin" THEN <<"osascript">> ELSE << >>)
    \o (IF platform = "win32" THEN <<"pptxtopdf">> ELSE << >>)
    \o <<"soffice", "unoconv">>

\* The test after an attempt (lines 715, 735, 753, 768): the converter
\* ended with status 0 and the PDF exists, written by it ("ok") or there
\* before ("zero": status 0, nothing written).
Succeeded(outcome, pdf_exists) ==
    outcome = "ok" \/ (outcome = "zero" /\ pdf_exists)

\* The cascade giving up at the first attempt that fails.
TryFirstOnly(order, i, pdf_exists, e) ==
    IF i > Len(order) THEN [ok |-> FALSE, ran |-> << >>, wrote |-> FALSE]
    ELSE [ok |-> Succeeded(e[order[i]], pdf_exists), ran |-> <<order[i]>>,
          wrote |-> e[order[i]] = "ok"]

\* Lines 693-772: the attempts from the i-th converter on.
RECURSIVE TryFrom(_, _, _, _)
TryFrom(order, i, pdf_exists, e) ==
    IF i > Len(order) THEN [ok |-> FALSE, ran |-> << >>, wrote |-> FALSE]
    ELSE IF Succeeded(e[order[i]], pdf_exists)
    THEN [ok |-> TRUE, ran |-> <<order[i]>>, wrote |-> e[order[i]] = "ok"]
    ELSE [TryFrom(order, i + 1, pdf_exists, e) EXCEPT !.ran = <<order[i]>> \o @]

\* Lines 681-777. The PDF (None when no attempt succeeded), the converters
\* run and whether one wrote the PDF.
convert_pptx_to_pdf(pptx_path, io, e) ==
    LET pdf_path == PathJoin(PathParent(pptx_path), PathStem(pptx_path) \o Ext_pdf)
    IN IF pdf_path \in io.files /\ pdf_path \in io.newer
       THEN [pdf |-> Str(pdf_path), io |-> io]
       ELSE Bind(TryFrom(Converters(e.platform), 1, pdf_path \in io.files, e),
                 LAMBDA tried :
                    [pdf |-> IF tried.ok THEN Str(pdf_path) ELSE None,
                     io |-> [io EXCEPT
                                !.ran = @ \o tried.ran,
                                !.files = IF tried.wrote THEN @ \cup {pdf_path}
                                          ELSE @,
                                !.newer = IF tried.wrote THEN @ \cup {pdf_path}
                                          ELSE @]])

\* Lines 630-679. The thumbnail's name, None when no rasterizer made one.
create_slide_thumbnail(pdf_path, output_dir, io, e) ==
    LET thumb_name == PathStem(pdf_path) \o ThumbSuffix
        thumb_path == PathJoin(output_dir, thumb_name)
    IN IF thumb_path \in DOMAIN io.written
       THEN [thumb |-> Str(thumb_name), io |-> io]
       ELSE IF e.magick = "ok" \/ e.pdftoppm = "ok"
       THEN [thumb |-> Str(thumb_name),
             io |-> [io EXCEPT !.written = Put(@, thumb_path, [type |-> "thumb"])]]
       ELSE [thumb |-> None, io |-> io]

\* Line 915: the id of the embed
slide_id(stem) ==
    <<"s", "l", "i", "d", "e", "s", "-">>
    \o [i \in 1..Len(stem) |-> IF stem[i] \in {" ", "."} THEN "-" ELSE stem[i]]

\* Lines 860-950. The snippet and what the call did; exited when the slide
\* file is neither in notebook_dir nor at the path as given.
generate_slide_embed(slide_file, notebook_dir, item_type, section_folder, io, e) ==
    LET inDir == PathJoin(notebook_dir, slide_file)
        source_file == IF inDir \in io.files THEN inDir ELSE slide_file
        inSection == Truthy(section_folder) /\ item_type = "index"
        actual_output_dir == IF inSection THEN section_folder.val ELSE <<".">>
        slide_file_path == PathJoin(actual_output_dir, PathName(slide_file))
        isPptx == PathSuffix(source_file) = Ext_pptx
        dest_file == PathJoin(actual_output_dir, PathName(slide_file))
        Copied(written, dest, from) ==
            IF dest \in DOMAIN written THEN written
            ELSE Put(written, dest, [type |-> "copy", from |-> from])
        Embed(source_pdf, pdf_filename, before) ==
            Bind(create_slide_thumbnail(
                     source_pdf, actual_output_dir,
                     [before EXCEPT
                         !.written = Copied(@, PathJoin(actual_output_dir,
                                                        pdf_filename),
                                            source_pdf)],
                     e),
                 LAMBDA thumbnail :
                    [html |-> <<"slide_embed",
                                <<slide_id(PathStem(source_pdf)), slide_file_path,
                                  IF Truthy(thumbnail.thumb)
                                  THEN PathJoin(actual_output_dir,
                                                thumbnail.thumb.val)
                                  ELSE << >> >> >>,
                     io |-> thumbnail.io])
    IN IF inDir \notin io.files /\ slide_file \notin io.files
       THEN [html |-> << >>, io |-> [io EXCEPT !.exited = TRUE]]
       ELSE IF isPptx
       THEN Bind(convert_pptx_to_pdf(source_file, io, e),
                 LAMBDA converted :
                    IF Truthy(converted.pdf)
                    THEN Embed(converted.pdf.val, PathName(converted.pdf.val),
                               converted.io)
                    ELSE [html |-> <<"download_only",
                                     <<slide_file_path, PathName(slide_file)>> >>,
                          io |-> [converted.io EXCEPT
                                     !.written = Copied(@, dest_file,
                                                        source_file)]])
       ELSE Embed(source_file, PathName(slide_file), io)

----------------------------------------------------------------------------
(* create_index: the landing page *)

\* One element of notebooks_md: what is rendered and the values it carries.
Frag(tag, values) == <<tag, values>>

\* section_cfg.get('title', section_cfg.get('folder'))
SectionTitle(section_cfg) ==
    GetOr(section_cfg, "title", Get(section_cfg, "folder"))

\* The entries of config['sections'] that are dicts, in declared order.
DictSections(cfg) ==
    SelectSeq(GetOr(cfg, "sections", List(<< >>)).val,
              LAMBDA sc : sc.kind = "dict")

\* section_configs.get(section, {}): the last declaration with that title
SectionConfig(cfg, section) ==
    LET declared == DictSections(cfg)
        with == {i \in 1..Len(declared) : SectionTitle(declared[i]) = section}
    IN IF with = {} THEN Dict(EmptyDict)
       ELSE declared[CHOOSE i \in with : \A j \in with : j <= i]

\* sections.keys(): the section titles of the records
SectionKeys(notebooks) ==
    {notebooks[i].val["section"] : i \in 1..Len(notebooks)}

\* sections[section]: the records of one section, in collection order
SectionItems(notebooks, section) ==
    SelectSeq(notebooks, LAMBDA nb : nb.val["section"] = section)

\* sorted(titles), ascending
RECURSIVE SortedTitles(_)
SortedTitles(titles) ==
    IF titles = {} THEN << >>
    ELSE LET least == CHOOSE x \in titles :
                         \A y \in titles : ~StrLess(y.val, x.val)
         IN <<least>> \o SortedTitles(titles \ {least})

\* The configured titles that have records, then the other titles, sorted.
SectionOrder(notebooks, cfg) ==
    LET declared == DictSections(cfg)
        configured ==
            SelectSeq([i \in 1..Len(declared) |-> SectionTitle(declared[i])],
                      LAMBDA title : title \in SectionKeys(notebooks))
        inConfig == {configured[i] : i \in 1..Len(configured)}
    IN configured \o SortedTitles(SectionKeys(notebooks) \ inConfig)

HasOrder(item) == Get(item, "order").kind # "none"

\* sort_key(item)
sort_key(item) ==
    IF HasOrder(item)
    THEN <<0, Get(item, "order").val, << >> >>
    ELSE <<1, 0, GetOr(item, "name", Str(<< >>)).val>>

\* k1 < k2 for two sort keys (tuples compare element by element)
KeyLess(k1, k2) ==
    \/ k1[1] < k2[1]
    \/ k1[1] = k2[1] /\ k1[2] < k2[2]
    \/ k1[1] = k2[1] /\ k1[2] = k2[2] /\ StrLess(k1[3], k2[3])

\* One step of a stable sort: item goes before the first element it precedes.
InsertByKey(sorted, item) ==
    LET after == {i \in 1..Len(sorted) :
                     KeyLess(sort_key(item), sort_key(sorted[i]))}
        at == IF after = {} THEN Len(sorted) + 1
              ELSE CHOOSE i \in after : \A j \in after : i <= j
    IN SubSeq(sorted, 1, at - 1) \o <<item>> \o SubSeq(sorted, at, Len(sorted))

\* sorted(items, key=sort_key)
RECURSIVE SortedByKey(_)
SortedByKey(items) ==
    IF items = << >> THEN << >>
    ELSE InsertByKey(SortedByKey(SubSeq(items, 1, Len(items) - 1)),
                     items[Len(items)])

ItemName(item) == GetOr(item, "name", Str(<< >>)).val

\* The step of the name sort without reverse=True: ascending by name.
InsertByNameAscending(sorted, item) ==
    LET after == {i \in 1..Len(sorted) :
                     StrLess(ItemName(item), ItemName(sorted[i]))}
        at == IF after = {} THEN Len(sorted) + 1
              ELSE CHOOSE i \in after : \A j \in after : i <= j
    IN SubSeq(sorted, 1, at - 1) \o <<item>> \o SubSeq(sorted, at, Len(sorted))

\* One step of the stable sort by name with reverse=True: item goes before
\* the first element whose name is less than its own.
InsertByNameReverse(sorted, item) ==
    LET after == {i \in 1..Len(sorted) :
                     StrLess(ItemName(sorted[i]), ItemName(item))}
        at == IF after = {} THEN Len(sorted) + 1
              ELSE CHOOSE i \in after : \A j \in after : i <= j
    IN SubSeq(sorted, 1, at - 1) \o <<item>> \o SubSeq(sorted, at, Len(sorted))

\* sorted(items, key=lambda x: x.get('name', ''), reverse=True)
RECURSIVE SortedByNameReverse(_)
SortedByNameReverse(items) ==
    IF items = << >> THEN << >>
    ELSE InsertByNameReverse(
             SortedByNameReverse(SubSeq(items, 1, Len(items) - 1)),
             items[Len(items)])

\* Lines 1145-1150: the order the items of a section are rendered in.
SortedItems(section_items) ==
    LET sorted_items == SortedByKey(section_items)
        items_with_order == SelectSeq(sorted_items, HasOrder)
        items_without_order ==
            SortedByNameReverse(
                SelectSeq(sorted_items, LAMBDA item : ~HasOrder(item)))
    IN items_with_order \o items_without_order

\* The list entries of a links list.
RenderLinks(links) ==
    [i \in 1..Len(links) |->
        Frag("li", <<GetOr(links[i], "url", Str(<<"#">>)),
                     GetOr(links[i], "name", Str(<<"L", "i", "n", "k">>)),
                     GetOr(links[i], "description", Str(<< >>))>>)]

\* Lines 1157-1212: what one item appends to notebooks_md.
RenderItem(item, icon_prefix) ==
    LET isMarkdown == Get(item, "type") = Str(<<"m", "a", "r", "k", "d", "o", "w", "n">>)
        heading ==
            IF isMarkdown
            THEN <<Frag("h3_page", <<icon_prefix, item.val["title"],
                                     item.val["html_file"]>>)>>
            ELSE <<Frag("h3_colab", <<icon_prefix, item.val["title"],
                                      item.val["exercise_file"]>>)>>
        description ==
            IF Truthy(item.val["description"])
            THEN <<Frag("description", <<item.val["description"]>>)>>
            ELSE << >>
        data ==
            IF Truthy(item.val["data_file"])
            THEN <<Frag("data", <<item.val["data_file"]>>)>>
            ELSE << >>
        body ==
            IF isMarkdown
            THEN <<Frag("div", << >>)>> \o data \o <<Frag("/div", << >>)>>
            ELSE <<Frag("div_buttons", << >>),
                   Frag("open_in_colab", <<item.val["exercise_file"]>>),
                   Frag("completed_colab", <<item.val["answers_file"]>>),
                   Frag("/div", << >>),
                   Frag("div_downloads", << >>),
                   Frag("worksheet", <<item.val["exercise_file"]>>),
                   Frag("completed", <<item.val["answers_file"]>>)>>
                 \o data \o <<Frag("/div", << >>)>>
        slide_link ==
            IF /\ Truthy(Get(item, "slides"))
               /\ Get(item, "slides") # Get(item, "section_slides")
            THEN <<Frag("slides", <<item.val["slides"]>>)>>
            ELSE << >>
        links ==
            IF Truthy(Get(item, "links"))
            THEN <<Frag("links_title", << >>), Frag("ul", << >>)>>
                 \o RenderLinks(item.val["links"].val)
            ELSE << >>
    IN heading \o description \o body \o slide_link \o links
       \o <<Frag("/ul", << >>), Frag("blank", << >>), Frag("empty", << >>)>>

RECURSIVE RenderItems(_, _)
RenderItems(items, icon_prefix) ==
    IF items = << >> THEN << >>
    ELSE RenderItem(Head(items), icon_prefix)
         \o RenderItems(Tail(items), icon_prefix)

\* The keys lines 1157-1212 read with item[...]: a record without one of
\* them raises KeyError.
Renderable(item) ==
    {"title", "description", "data_file"}
    \cup (IF Get(item, "type") = Str(<<"m", "a", "r", "k", "d", "o", "w", "n">>)
          THEN {"html_file"} ELSE {"exercise_file", "answers_file"})
        \subseteq DOMAIN item.val

\* Lines 1105-1212: what one section appends to notebooks_md, and what
\* embedding its slides did.
RenderSection(section, notebooks, cfg, io, e) ==
    LET section_items == SectionItems(notebooks, section)
        section_cfg == SectionConfig(cfg, section)
        isDraft == /\ Len(section_items) = 1
                   /\ Truthy(Get(section_items[1], "is_draft"))
        sec_folder ==
            IF Len(section_items) > 0
            THEN section_items[1].val["section_folder"]
            ELSE Get(section_cfg, "folder")
        section_dir == sec_folder.val
        data ==
            IF Truthy(Get(section_cfg, "data_files")) /\ Truthy(sec_folder)
            THEN <<Frag("section_files",
                        <<sec_folder,
                          Str(PathName(sec_folder.val) \o Ext_data_zip)>>)>>
            ELSE << >>
        icon_prefix == Get(section_cfg, "icon")
        sorted_items == SortedItems(section_items)
        heading == <<Frag("h2", <<section>>)>>
    IN IF isDraft
       THEN [body |-> heading
                      \o (IF Truthy(Get(section_items[1], "description"))
                          THEN <<Frag("description",
                                      <<section_items[1].val["description"]>>)>>
                          ELSE << >>)
                      \o <<Frag("coming_later", << >>)>>,
             io |-> io]
       ELSE Bind(IF Truthy(Get(section_cfg, "slides"))
                 THEN generate_slide_embed(section_cfg.val["slides"].val,
                                           PathParent(section_dir), "index",
                                           Str(PathName(section_dir)), io, e)
                 ELSE [html |-> << >>, io |-> io],
                 LAMBDA embed :
                    LET slides == IF Truthy(Get(section_cfg, "slides"))
                                  THEN <<embed.html>> ELSE << >>
                    IN IF embed.io.exited
                       THEN [body |-> heading, io |-> embed.io]
                       ELSE IF \E i \in 1..Len(sorted_items) :
                                  ~Renderable(sorted_items[i])
                       THEN [body |-> heading \o slides \o data,
                             io |-> [embed.io EXCEPT !.raised = TRUE]]
                       ELSE [body |-> heading \o slides \o data
                                      \o RenderItems(sorted_items, icon_prefix),
                             io |-> embed.io])

\* The loop of line 1105 from the i-th section on: it ends where a section
\* exits or raises.
RECURSIVE RenderSections(_, _, _, _, _, _)
RenderSections(order, i, notebooks, cfg, io, e) ==
    IF i > Len(order) THEN [body |-> << >>, io |-> io]
    ELSE Bind(RenderSection(order[i], notebooks, cfg, io, e),
              LAMBDA first :
                 IF first.io.exited \/ first.io.raised THEN first
                 ELSE Bind(RenderSections(order, i + 1, notebooks, cfg,
                                          first.io, e),
                           LAMBDA rest :
                              [body |-> first.body \o rest.body, io |-> rest.io]))

WorkshopZip ==
    <<"w", "o", "r", "k", "s", "h", "o", "p", "-", "d", "a", "t", "a",
      ".", "z", "i", "p">>

\* Lines 1066-1090: the root-level slides, data files and links.
RenderRoot(cfg, io, e) ==
    Bind(IF Truthy(Get(cfg, "slides"))
         THEN generate_slide_embed(cfg.val["slides"].val, <<".">>, "index",
                                   None, io, e)
         ELSE [html |-> << >>, io |-> io],
         LAMBDA embed :
            IF embed.io.exited THEN [body |-> << >>, io |-> embed.io]
            ELSE [body |->
                     (IF Truthy(Get(cfg, "slides")) THEN <<embed.html>>
                      ELSE << >>)
                     \o (IF Truthy(Get(cfg, "data_files"))
                         THEN <<Frag("download_files", << >>)>> ELSE << >>)
                     \o (IF Truthy(Get(cfg, "links"))
                         THEN <<Frag("h2_links", << >>)>>
                              \o RenderLinks(cfg.val["links"].val)
                              \o <<Frag("blank", << >>)>>
                         ELSE << >>),
                  io |->
                     IF Truthy(Get(cfg, "data_files"))
                     THEN [embed.io EXCEPT
                              !.written =
                                  Put(@, WorkshopZip,
                                      create_data_zip(cfg.val["data_files"].val,
                                                      <<".">>, io.files))]
                     ELSE embed.io])

\* notebooks_md as create_index has built it at line 1284
notebooks_md(notebooks, cfg, io, e) ==
    Bind(RenderRoot(cfg, io, e),
         LAMBDA root :
            IF root.io.exited THEN root
            ELSE Bind(RenderSections(SectionOrder(notebooks, cfg), 1, notebooks,
                                     cfg, root.io, e),
                      LAMBDA sections :
                         [body |-> root.body \o sections.body,
                          io |-> sections.io]))

\* Lines 1042-1295: create_index writes the page to index.html at its last
\* step, so not when a slide file is missing (sys.exit) or a key is.
create_index(notebooks, cfg, io, e) ==
    IF "github_repo" \notin DOMAIN cfg.val
    THEN [io EXCEPT !.raised = TRUE]
    ELSE Bind(notebooks_md(notebooks, cfg, io, e),
              LAMBDA md :
                 IF md.io.exited \/ md.io.raised THEN md.io
                 ELSE [md.io EXCEPT
                          !.written =
                              Put(@, IndexHtml,
                                  [type |-> "html",
                                   github_repo |-> cfg.val["github_repo"],
                                   github_branch |->
                                       GetOr(cfg, "github_branch",
                                             Str(<<"m", "a", "i", "n">>)),
                                   title |-> GetOr(cfg, "title", Str(DefaultTitle)),
                                   description |->
                                       GetOr(cfg, "description", Str(<< >>)),
                                   body |-> md.body])])

\* Lines 1727: main builds the index when there is something to show.
HasIndexContent(items, cfg) ==
    \/ Len(items) > 0
    \/ Truthy(Get(cfg, "slides"))
    \/ Truthy(Get(cfg, "data_files"))
    \/ Truthy(Get(cfg, "links"))

\* The record of a notebook carrying the path of a data archive always.
InfoWithArchiveAlways(notebook_path, metadata) ==
    LET base_name == PathStem(notebook_path)
        dir_name == PathName(PathParent(notebook_path))
    IN Dict([k \in {"name", "title", "description", "exercise_file",
                    "answers_file", "data_file", "section", "order", "links",
                    "slides"} |->
            CASE k = "name" -> Str(base_name)
              [] k = "title" -> GetOr(metadata, "title", Str(base_name))
              [] k = "description" -> GetOr(metadata, "description", Str(<< >>))
              [] k = "exercise_file" ->
                    Str(dir_name \o Slash \o base_name \o Ext_ipynb)
              [] k = "answers_file" ->
                    Str(dir_name \o Slash \o base_name \o Ext_answers)
              [] k = "data_file" ->
                    Str(dir_name \o Slash \o base_name \o Ext_data_zip)
              [] k = "section" -> Str(dir_name)
              [] k = "order" -> Get(metadata, "order")
              [] k = "links" -> Get(metadata, "links")
              [] k = "slides" -> Get(metadata, "slides")])

\* Lines 517-528: the record process_notebook returns.
notebook_info(notebook_path, metadata) ==
    LET base_name == PathStem(notebook_path)
        dir_name == PathName(PathParent(notebook_path))
    IN Dict([k \in {"name", "title", "description", "exercise_file",
                    "answers_file", "data_file", "section", "order", "links",
                    "slides"} |->
            CASE k = "name" -> Str(base_name)
              [] k = "title" -> GetOr(metadata, "title", Str(base_name))
              [] k = "description" -> GetOr(metadata, "description", Str(<< >>))
              [] k = "exercise_file" ->
                    Str(dir_name \o Slash \o base_name \o Ext_ipynb)
              [] k = "answers_file" ->
                    Str(dir_name \o Slash \o base_name \o Ext_answers)
              [] k = "data_file" ->
                    IF Truthy(Get(metadata, "data_files"))
                    THEN Str(dir_name \o Slash \o base_name \o Ext_data_zip)
                    ELSE None
              [] k = "section" -> Str(dir_name)
              [] k = "order" -> Get(metadata, "order")
              [] k = "links" -> Get(metadata, "links")
              [] k = "slides" -> Get(metadata, "slides")])

\* Lines 1029-1040: the record process_markdown returns.
markdown_info(markdown_path, frontmatter) ==
    LET base_name == PathStem(markdown_path)
        dir_name == PathName(PathParent(markdown_path))
    IN Dict([k \in {"name", "title", "description", "html_file", "data_file",
                    "section", "type", "order", "links", "slides"} |->
            CASE k = "name" -> Str(base_name)
              [] k = "title" -> GetOr(frontmatter, "title", Str(base_name))
              [] k = "description" ->
                    GetOr(frontmatter, "description", Str(<< >>))
              [] k = "html_file" ->
                    Str(dir_name \o Slash \o base_name \o Ext_html)
              [] k = "data_file" ->
                    IF Truthy(Get(frontmatter, "data_files"))
                    THEN Str(dir_name \o Slash \o base_name \o Ext_data_zip)
                    ELSE None
              [] k = "section" -> Str(dir_name)
              [] k = "type" -> Str(<<"m", "a", "r", "k", "d", "o", "w", "n">>)
              [] k = "order" -> Get(frontmatter, "order")
              [] k = "links" -> Get(frontmatter, "links")
              [] k = "slides" -> Get(frontmatter, "slides")])

\* Lines 1705-1710 and 1718-1723: main files the record under its section.
Collected(info, section_cfg) ==
    LET underSection ==
            Put(Put(info.val, "section", SectionTitle(section_cfg)),
                "section_folder", Get(section_cfg, "folder"))
    IN Dict(IF Truthy(Get(section_cfg, "slides"))
            THEN Put(underSection, "section_slides", Get(section_cfg, "slides"))
            ELSE underSection)

----------------------------------------------------------------------------
(* process_notebook: the exercise and the answers variant of a notebook *)

\* s.startswith(prefix)
StartsWith(str, prefix) ==
    Len(prefix) <= Len(str) /\ SubSeq(str, 1, Len(prefix)) = prefix

\* s.strip(), of the blanks of the alphabet
Strip(str) ==
    LET inked == {i \in 1..Len(str) : str[i] # " "}
    IN IF inked = {} THEN << >>
       ELSE SubSeq(str, CHOOSE i \in inked : \A j \in inked : i <= j,
                        CHOOSE i \in inked : \A j \in inked : j <= i)

\* s.split(): the words between blanks
Split(str) ==
    LET starts == {i \in 1..Len(str) :
                      str[i] # " " /\ (i = 1 \/ str[i - 1] = " ")}
        ends == {i \in 1..Len(str) :
                    str[i] # " " /\ (i = Len(str) \/ str[i + 1] = " ")}
        start(k) == CHOOSE i \in starts :
                        Cardinality({j \in starts : j < i}) = k - 1
        end(k) == CHOOSE i \in ends :
                      Cardinality({j \in ends : j < i}) = k - 1
    IN [k \in 1..Cardinality(starts) |-> SubSeq(str, start(k), end(k))]

Unreserved ==
    {"-", ".", "/", "_", "0", "1", "2", "3", "4", "5", "6", "7", "8", "9",
     "a", "b", "c", "d", "e", "f", "g", "h", "i", "j", "k", "l", "m", "n",
     "o", "p", "q", "r", "s", "t", "u", "v", "w", "x", "y", "z"}

\* The percent-encoding of the other characters of the alphabet.
PercentEncoded(c) ==
    CASE c = " " -> <<"%", "2", "0">>
      [] c = "!" -> <<"%", "2", "1">>
      [] c = "*" -> <<"%", "2", "A">>
      [] c = "?" -> <<"%", "3", "F">>
      [] c = "[" -> <<"%", "5", "B">>
      [] c = "]" -> <<"%", "5", "D">>

RECURSIVE QuoteFrom(_, _)
QuoteFrom(str, i) ==
    IF i > Len(str) THEN << >>
    ELSE (IF str[i] \in Unreserved THEN <<str[i]>> ELSE PercentEncoded(str[i]))
         \o QuoteFrom(str, i + 1)

\* urllib.parse.quote(s)
quote(str) == QuoteFrom(str, 1)

\* One line of a cell's source: its fixed text and the strs put into it.
Line(text, values) == <<text, values>>

CodeCell(source) ==
    [cell_type |-> "code", metadata |-> Dict(EmptyDict), source |-> source,
     execution_count |-> None, outputs |-> << >>]

\* A cell without outputs and execution_count has them empty and None.
MarkdownCell(source) ==
    [cell_type |-> "markdown", metadata |-> Dict(EmptyDict), source |-> source,
     execution_count |-> None, outputs |-> << >>]

\* notebook.get('metadata', {}).get('workshop', {})
get_notebook_metadata(nb) == GetOr(nb.metadata, "workshop", Dict(EmptyDict))

Solution == <<"s", "o", "l", "u", "t", "i", "o", "n">>

\* Line 438: the cell has tags and 'solution' is one of them.
IsSolutionCell(cell) ==
    LET tags == Get(cell.metadata, "tags")
    IN Truthy(tags) /\ \E i \in 1..Len(tags.val) : tags.val[i] = Str(Solution)

\* The cell of the exercise variant with its outputs left in place.
ExerciseCellKeepingOutputs(cell) ==
    IF IsSolutionCell(cell) THEN CodeCell(<< >>) ELSE cell

\* Lines 431-445: the cell of the exercise variant made from one cell.
ExerciseCell(cell) ==
    LET cleared ==
            IF cell.cell_type = "code"
            THEN [cell EXCEPT !.outputs = << >>, !.execution_count = None]
            ELSE cell
    IN IF IsSolutionCell(cleared) THEN CodeCell(<< >>) ELSE cleared

exercise_cells(cells) == [i \in 1..Len(cells) |-> ExerciseCell(cells[i])]

\* The answers variant sharing its cells with the exercise variant.
CompleteCellsShared(cells) == exercise_cells(cells)

\* Line 410: the answers variant keeps the cells of the notebook.
complete_cells(cells) == cells

DefaultInstall == <<"p", "a", "n", "d", "a", "s", " ", "n", "a", "t", "u", "r", "a", "l", "_", "p", "d", "f", " ", "t", "q", "d", "m">>

\* Lines 327-333: the packages of an install value.
Packages(install_packages) ==
    CASE install_packages.kind = "str" -> Split(install_packages.val)
      [] install_packages.kind = "list" ->
            [i \in 1..Len(install_packages.val) |-> install_packages.val[i].val]
      [] OTHER -> << >>

\* Lines 336-338: one %pip line per package whose name is not blank.
PipLines(packages) ==
    LET named == SelectSeq(packages, LAMBDA package : Strip(package) # << >>)
    IN [i \in 1..Len(named) |->
           Line("%pip install --upgrade --quiet {}", <<Strip(named[i])>>)]

InstallHeader == Line("# Install required packages", << >>)
DownloadHeader == Line("# Download and extract data files", << >>)

\* Lines 309-390. zip_name is a str value or None.
create_setup_cells(zip_name, cfg, install_packages, section_folder, for_codespaces) ==
    IF for_codespaces THEN << >>
    ELSE
        LET github_repo == cfg.val["github_repo"].val
            github_branch == GetOr(cfg, "github_branch", Str(<<"m", "a", "i", "n">>)).val
            output_dir == GetOr(cfg, "output_dir", Str(<<"d", "o", "c", "s">>)).val
            packages == Packages(install_packages)
            install ==
                IF Truthy(install_packages) /\ Len(packages) > 0
                THEN <<CodeCell(<<InstallHeader>> \o PipLines(packages))>>
                ELSE << >>
            encoded_zip_url ==
                IF Truthy(section_folder)
                THEN output_dir \o Slash \o section_folder.val \o Slash
                     \o quote(zip_name.val)
                ELSE output_dir \o Slash \o quote(zip_name.val)
            download ==
                IF Truthy(zip_name)
                THEN <<CodeCell(
                        <<DownloadHeader,
                          Line("import os", << >>),
                          Line("import urllib.request", << >>),
                          Line("import zipfile", << >>),
                          Line("", << >>),
                          Line("url = 'https://github.com/{}/raw/{}/{}'",
                               <<github_repo, github_branch, encoded_zip_url>>),
                          Line("print(f'Downloading data from {url}...')", << >>),
                          Line("urllib.request.urlretrieve(url, '{}')",
                               <<zip_name.val>>),
                          Line("", << >>),
                          Line("print('Extracting {}...')", <<zip_name.val>>),
                          Line("with zipfile.ZipFile('{}', 'r') as zip_ref:",
                               <<zip_name.val>>),
                          Line("    zip_ref.extractall('.')", << >>),
                          Line("", << >>),
                          Line("os.remove('{}')", <<zip_name.val>>),
                          Line("print('Data files extracted!')", << >>)>>)>>
                ELSE << >>
        IN install \o download

\* The setup cells with the install cell always added.
SetupCellsAlways(path, metadata, cfg) ==
    create_setup_cells(
        IF Truthy(Get(metadata, "data_files"))
        THEN Str(PathStem(path) \o Ext_data_zip) ELSE None,
        cfg, GetOr(metadata, "install", Str(DefaultInstall)),
        Str(PathName(PathParent(path))), FALSE)

\* Lines 449-453: setup_cells
setup_cells(path, metadata, cfg) ==
    IF Truthy(Get(metadata, "data_files")) \/ Truthy(Get(metadata, "install"))
    THEN create_setup_cells(
             IF Truthy(Get(metadata, "data_files"))
             THEN Str(PathStem(path) \o Ext_data_zip) ELSE None,
             cfg, GetOr(metadata, "install", Str(DefaultInstall)),
             Str(PathName(PathParent(path))), FALSE)
    ELSE << >>

\* cells.insert(pos, cell), pos counted from 0
InsertAt(cells, pos, cell) ==
    SubSeq(cells, 1, pos) \o <<cell>> \o SubSeq(cells, pos + 1, Len(cells))

\* The loop of lines 456-458 without reversed(): each cell goes to the front.
RECURSIVE InsertSetupForward(_, _)
InsertSetupForward(cells, setup) ==
    IF setup = << >> THEN cells
    ELSE InsertSetupForward(InsertAt(cells, 0, Head(setup)), Tail(setup))

\* Lines 456-458: the setup cells, last first, each inserted at the front.
RECURSIVE InsertSetup(_, _)
InsertSetup(cells, setup) ==
    IF setup = << >> THEN cells
    ELSE InsertSetup(InsertAt(cells, 0, setup[Len(setup)]),
                     SubSeq(setup, 1, Len(setup) - 1))

\* Lines 475-479: the slide-link cell
slide_link_cell(slide_file) ==
    MarkdownCell(<<Line("**Slides:** [{}](./{})",
                        <<PathName(slide_file.val), PathName(slide_file.val)>>)>>)

\* Lines 447-483: the cells of a variant with the setup and slide cells added.
WithInsertedCells(cells, path, metadata, cfg) ==
    LET setup == setup_cells(path, metadata, cfg)
        withSetup == InsertSetup(cells, setup)
    IN IF Truthy(Get(metadata, "slides"))
       THEN InsertAt(withSetup, Len(setup), slide_link_cell(Get(metadata, "slides")))
       ELSE withSetup

\* Lines 413-428: the notebook metadata of both variants.
VariantMetadata(nb, metadata) ==
    LET kernelspec ==
            Put(Put(Put(GetOr(nb.metadata, "kernelspec", Dict(EmptyDict)).val,
                        "name", Str(<<"p", "y", "t", "h", "o", "n", "3">>)),
                    "display_name", Str(<<"P", "y", "t", "h", "o", "n", " ", "3">>)),
                "language", Str(<<"p", "y", "t", "h", "o", "n">>))
    IN Dict(Put(Put(nb.metadata.val, "kernelspec", Dict(kernelspec)),
                "workshop", metadata))

\* The paths a markdown cell's source refers to (lines 563-575).
Referenced(cell) ==
    LET images == SelectSeq(cell.source, LAMBDA line : line[1] = "![]({})")
    IN {images[i][2][1] : i \in 1..Len(images)}

IsUrl(ref) == StartsWith(ref, <<"h", "t", "t", "p", ":", "/", "/">>) \/ StartsWith(ref, <<"h", "t", "t", "p", "s", ":", "/", "/">>)

\* Lines 558-592: the referenced files that exist in the notebook's directory
\* and are not in the output directory yet, by destination.
find_and_copy_referenced_files(cells, notebook_dir, files, written) ==
    LET refs == UNION {Referenced(cells[i]) :
                          i \in {j \in 1..Len(cells) :
                                    cells[j].cell_type = "markdown"}}
    IN {ref \in refs :
           /\ ~IsUrl(ref)
           /\ (notebook_dir \o Slash \o ref) \in files
           /\ (PathName(notebook_dir) \o Slash \o ref) \notin DOMAIN written}

\* The slide file taken to be at the path as given, found or not.
SlideSourceAsGiven(slide_file, notebook_dir, files) == slide_file

\* Lines 486-490: where the slide file is found, << >> when nowhere.
SlideSource(slide_file, notebook_dir, files) ==
    IF (notebook_dir \o Slash \o slide_file) \in files
    THEN notebook_dir \o Slash \o slide_file
    ELSE IF slide_file \in files THEN slide_file
    ELSE << >>

RECURSIVE PutAll(_, _, _)
PutAll(written, paths, content) ==
    IF paths = {} THEN written
    ELSE LET path == CHOOSE x \in paths : TRUE
         IN PutAll(Put(written, path, content), paths \ {path}, content)

\* The test of line 402 made on the embedded block, before the overrides.
IsSkippedByOwn(own, metadata) == ~Truthy(own)

\* Line 402: the notebook is skipped.
IsSkipped(own, metadata) == ~Truthy(metadata)

\* process_notebook (lines 392-528): the metadata, whether the notebook was
\* skipped, whether the process exited, the files in the output directory
\* afterwards and the record returned.
process_notebook(path, nb, cfg, files, written) ==
    LET own == get_notebook_metadata(nb)
        metadata == apply_metadata_overrides(path, own, cfg)
        base_name == PathStem(path)
        notebook_dir == PathParent(path)
        subdir == PathName(notebook_dir)
        complete == WithInsertedCells(complete_cells(nb.cells), path, metadata, cfg)
        exercise == WithInsertedCells(exercise_cells(nb.cells), path, metadata, cfg)
        copied == find_and_copy_referenced_files(
                      InsertSetup(complete_cells(nb.cells),
                                  setup_cells(path, metadata, cfg)),
                      notebook_dir, files, written)
        withCopies ==
            PutAll(written, {subdir \o Slash \o ref : ref \in copied},
                   [type |-> "copy"])
        slide_file == Get(metadata, "slides")
        source_pdf ==
            IF Truthy(slide_file)
            THEN SlideSource(slide_file.val, notebook_dir, files) ELSE << >>
        withSlide ==
            IF Truthy(slide_file)
               /\ (subdir \o Slash \o PathName(slide_file.val))
                     \notin DOMAIN withCopies
            THEN Put(withCopies, subdir \o Slash \o PathName(slide_file.val),
                     [type |-> "copy"])
            ELSE withCopies
        withZip ==
            IF Truthy(Get(metadata, "data_files"))
            THEN Put(withSlide, subdir \o Slash \o base_name \o Ext_data_zip,
                     create_data_zip(metadata.val["data_files"].val,
                                     notebook_dir, files))
            ELSE withSlide
        withNotebooks ==
            Put(Put(withZip, subdir \o Slash \o base_name \o Ext_ipynb,
                    [type |-> "notebook", cells |-> exercise,
                     metadata |-> VariantMetadata(nb, metadata)]),
                subdir \o Slash \o base_name \o Ext_answers,
                [type |-> "notebook", cells |-> complete,
                 metadata |-> VariantMetadata(nb, metadata)])
    IN IF IsSkipped(own, metadata)
       THEN [own |-> own, metadata |-> metadata, exited |-> FALSE,
             written |-> written, info |-> None]
       ELSE IF Truthy(slide_file) /\ source_pdf = << >>
       THEN [own |-> own, metadata |-> metadata, exited |-> TRUE,
             written |-> withCopies, info |-> None]
       ELSE [own |-> own, metadata |-> metadata, exited |-> FALSE,
             written |-> withNotebooks,
             info |-> notebook_info(path, metadata)]

\* The section of config['sections'] whose folder holds the file.
SectionOf(path, cfg) ==
    LET declared == DictSections(cfg)
    IN declared[CHOOSE i \in 1..Len(declared) :
                    Get(declared[i], "folder") = Str(PathParent(path))]

\* Lines 1697-1711 of main: one notebook of a section folder is processed and
\* its record, if it has one, is collected.
ProcessNotebook ==
    /\ pc = "start"
    /\ \E done \in {process_notebook(file_path, notebook, config, fs, out_files)} :
          /\ meta' = done.own
          /\ merged' = done.metadata
          /\ overrides' = _iter_metadata_overrides(config)
          /\ applied' = MergedOverrides(file_path, config)
          /\ out_files' = done.written
          /\ ret' = done.info
          /\ processed_items' =
                IF Truthy(done.info)
                THEN Append(processed_items,
                            Collected(done.info, SectionOf(file_path, config)))
                ELSE processed_items
          /\ exit_code' = IF done.exited THEN Num(1) ELSE exit_code
          /\ pc' = IF done.exited THEN "exited" ELSE "processed"
    /\ UNCHANGED <<mainVars, config, mergeVars, file_path, notebook, fs>>

\* Lines 1726-1731 of main: the index is built from the collected records.
\* A missing slide file ends the process with status 1, and so does a
\* KeyError that nothing catches.
CreateIndex ==
    /\ pc = "processed"
    /\ \E built \in {IF HasIndexContent(processed_items, config)
                     THEN create_index(processed_items, config,
                                       IO(fs, env.newer, out_files, attempts), env)
                     ELSE IO(fs, env.newer, out_files, attempts)} :
          /\ out_files' = built.written
          /\ fs' = built.files
          /\ env' = [env EXCEPT !.newer = built.newer]
          /\ attempts' = built.ran
          /\ exit_code' = IF built.exited \/ built.raised THEN Num(1)
                          ELSE exit_code
          /\ pc' = IF built.exited THEN "exited"
                   ELSE IF built.raised THEN "raised" ELSE "published"
    /\ UNCHANGED <<config, mergeVars, metaVars, notebook, ret, processed_items,
                   args, sources, todo, repo, pushes>>

----------------------------------------------------------------------------
(* process_markdown: the page of a markdown file *)

\* The text of a markdown file is a list of lines. A line is the fence
\* <<"---">>, a YAML line <<"kv", key, value>>, a line no YAML document can
\* hold <<"bad">>, a heading <<"h2", text>>, an image <<"img", path>>, or
\* other text <<"text">>.
Fence == <<"---">>

\* The line of the fence closing the block opened at line 1, 0 if there is
\* none: the pattern of line 31 needs a line between the two.
ClosingFence(content) ==
    LET closing == {k \in 3..Len(content) : content[k] = Fence}
    IN IF Len(content) = 0 \/ content[1] # Fence \/ closing = {} THEN 0
       ELSE CHOOSE k \in closing : \A m \in closing : k <= m

\* yaml.safe_load of a block of lines: the mapping of its keys, a later
\* line for a key replacing an earlier one; None for an empty block.
safe_load(yaml_content) ==
    LET pairs == SelectSeq(yaml_content, LAMBDA line : line[1] = "kv")
        keys == {pairs[i][2] : i \in 1..Len(pairs)}
        last(k) == CHOOSE i \in 1..Len(pairs) :
                      /\ pairs[i][2] = k
                      /\ \A j \in 1..Len(pairs) : pairs[j][2] = k => j <= i
    IN IF pairs = << >> THEN None
       ELSE Dict([k \in keys |-> pairs[last(k)][3]])

\* The front matter read from the lines of the block that do parse.
FrontmatterOfParsableLines(content) ==
    LET k == ClosingFence(content)
        yaml_content == SubSeq(content, 2, k - 1)
    IN IF k = 0
       THEN [frontmatter |-> Dict(EmptyDict), markdown_content |-> content]
       ELSE [frontmatter |->
                safe_load(SelectSeq(yaml_content, LAMBDA line : line[1] = "kv")),
             markdown_content |-> SubSeq(content, k + 1, Len(content))]

\* Lines 29-43: the front matter and the text after it. A block that does
\* not parse gives no front matter and leaves the text whole.
extract_markdown_frontmatter(content) ==
    LET k == ClosingFence(content)
        yaml_content == SubSeq(content, 2, k - 1)
    IN IF k = 0
       THEN [frontmatter |-> Dict(EmptyDict), markdown_content |-> content]
       ELSE IF \E i \in 1..Len(yaml_content) : yaml_content[i][1] \notin {"kv"}
       THEN [frontmatter |-> Dict(EmptyDict), markdown_content |-> content]
       ELSE [frontmatter |-> safe_load(yaml_content),
             markdown_content |-> SubSeq(content, k + 1, Len(content))]

\* The characters of a line as re.findall of line 49 reads them: a heading
\* <<"h2", text>> is the line "## text", <<"h3", text>> is "### text", and
\* <<"code", chars>> is a line inside a fenced code block, held as written.
\* The other lines begin with no "#".
H2Prefix == <<"#", "#", " ">>
LineText(line) ==
    CASE line[1] = "h2" -> H2Prefix \o line[2]
      [] line[1] = "h3" -> <<"#">> \o H2Prefix \o line[2]
      [] line[1] = "code" -> line[2]
      [] OTHER -> << >>

\* Line 48: the pattern ^## (.+)$ matches a line, and what its group holds.
MatchesHeader(text) == Len(text) > 3 /\ SubSeq(text, 1, 3) = H2Prefix
HeaderGroup(text) == SubSeq(text, 4, Len(text))

\* The elements of a list.
Range(seq) == {seq[i] : i \in 1..Len(seq)}

\* The character classes of the pattern [^\w\s-] of line 62.
UpperCase == <<"A", "B", "C", "D", "E", "F", "G", "H", "I", "J", "K", "L", "M",
               "N", "O", "P", "Q", "R", "S", "T", "U", "V", "W", "X", "Y", "Z">>
LowerCase == <<"a", "b", "c", "d", "e", "f", "g", "h", "i", "j", "k", "l", "m",
               "n", "o", "p", "q", "r", "s", "t", "u", "v", "w", "x", "y", "z">>
Digits == {"0", "1", "2", "3", "4", "5", "6", "7", "8", "9"}
WordChars == Range(UpperCase) \cup Range(LowerCase) \cup Digits \cup {"_"}
WhiteSpace == {" ", "\t"}

\* str.lower, str.strip and str.replace(' ', '-') on a tuple of characters.
LowerChar(c) ==
    IF c \in Range(UpperCase)
    THEN LowerCase[CHOOSE i \in 1..Len(UpperCase) : UpperCase[i] = c]
    ELSE c
lower(text) == [i \in 1..Len(text) |-> LowerChar(text[i])]
strip(text) ==
    LET inked == {i \in 1..Len(text) : text[i] \notin WhiteSpace}
    IN IF inked = {} THEN << >>
       ELSE SubSeq(text,
                   CHOOSE i \in inked : \A j \in inked : i <= j,
                   CHOOSE i \in inked : \A j \in inked : j <= i)
SpacesToHyphens(text) ==
    [i \in 1..Len(text) |-> IF text[i] = " " THEN "-" ELSE text[i]]

\* re.sub(r'[^\w\s-]', '', header) of line 62.
WithoutSpecialChars(header) ==
    SelectSeq(header, LAMBDA c : c \in WordChars \cup WhiteSpace \cup {"-"})

\* The anchor without the strip() of line 62.
AnchorUnstripped(header) ==
    SpacesToHyphens(lower(WithoutSpecialChars(header)))

\* Line 62: the anchor of a header.
anchor(header) ==
    SpacesToHyphens(lower(strip(WithoutSpecialChars(header))))

UsefulLinks == <<"U", "s", "e", "f", "u", "l", " ", "L", "i", "n", "k", "s">>
TableOfContents == <<"h2", <<"T", "a", "b", "l", "e", " ", "o", "f", " ",
                            "C", "o", "n", "t", "e", "n", "t", "s">> >>

\* Lines 45-65: the lines of the table of contents, its heading and one
\* entry <<"li", header, anchor>> for each header; no line when there is no
\* header.
generate_toc_from_markdown(markdown_content, has_useful_links) ==
    LET found == SelectSeq(markdown_content,
                           LAMBDA line : MatchesHeader(LineText(line)))
        headers == (IF has_useful_links THEN <<UsefulLinks>> ELSE << >>)
                   \o [i \in 1..Len(found) |-> HeaderGroup(LineText(found[i]))]
    IN IF headers = << >> THEN << >>
       ELSE <<TableOfContents>>
            \o [i \in 1..Len(headers) |->
                   <<"li", headers[i], anchor(headers[i])>>]

\* Lines 594-628: the referenced files found beside the markdown file.
copy_markdown_referenced_files(content, markdown_dir, files) ==
    LET images == SelectSeq(content, LAMBDA line : line[1] = "img")
    IN {images[i][2] : i \in 1..Len(images)}
       \cap {ref \in {images[i][2] : i \in 1..Len(images)} :
                PathJoin(markdown_dir, ref) \in files}

\* Lines 952-1040: the front matter found in the file, the merged metadata,
\* what the call did and the record returned.
process_markdown(markdown_path, content, cfg, io, e) ==
    LET base_name == PathStem(markdown_path)
        markdown_dir == PathParent(markdown_path)
        subdir == PathName(markdown_dir)
        Page(extracted, frontmatter) ==
            LET markdown_content == extracted.markdown_content
                copied == copy_markdown_referenced_files(
                              markdown_content, markdown_dir, io.files)
                withCopies ==
                    PutAll(io.written,
                           {PathJoin(subdir, ref) :
                               ref \in {r \in copied :
                                           PathJoin(subdir, r)
                                               \notin DOMAIN io.written}},
                           [type |-> "copy"])
                withZip ==
                    IF Truthy(Get(frontmatter, "data_files"))
                    THEN Put(withCopies,
                             PathJoin(subdir, base_name \o Ext_data_zip),
                             create_data_zip(frontmatter.val["data_files"].val,
                                             markdown_dir, io.files))
                    ELSE withCopies
            IN Bind(IF Truthy(Get(frontmatter, "slides"))
                    THEN generate_slide_embed(
                             frontmatter.val["slides"].val, markdown_dir,
                             "markdown", None, [io EXCEPT !.written = withZip], e)
                    ELSE [html |-> << >>, io |-> [io EXCEPT !.written = withZip]],
                    LAMBDA embed :
                       IF embed.io.exited
                       THEN [own |-> extracted.frontmatter,
                             metadata |-> frontmatter,
                             io |-> embed.io, info |-> None]
                       ELSE [own |-> extracted.frontmatter,
                             metadata |-> frontmatter,
                             io |-> [embed.io EXCEPT
                                       !.written =
                                         Put(@, PathJoin(subdir,
                                                         base_name \o Ext_html),
                                             [type |-> "page",
                                              title |->
                                                GetOr(frontmatter, "title",
                                                      Str(base_name)),
                                              toc |->
                                                generate_toc_from_markdown(
                                                  markdown_content,
                                                  Truthy(Get(frontmatter,
                                                             "links"))),
                                              download |->
                                                IF Truthy(Get(frontmatter,
                                                              "data_files"))
                                                THEN base_name \o Ext_data_zip
                                                ELSE << >>,
                                              slides |-> embed.html,
                                              links |->
                                                IF Truthy(Get(frontmatter, "links"))
                                                THEN RenderLinks(
                                                       frontmatter.val["links"].val)
                                                ELSE << >>,
                                              body |-> markdown_content])],
                             info |-> markdown_info(markdown_path, frontmatter)])
    IN Bind(extract_markdown_frontmatter(content),
            LAMBDA extracted :
               Bind(apply_metadata_overrides(
                        markdown_path,
                        IF Truthy(extracted.frontmatter)
                        THEN extracted.frontmatter ELSE Dict(EmptyDict),
                        cfg),
                    LAMBDA frontmatter : Page(extracted, frontmatter)))

----------------------------------------------------------------------------
(* main: the publishing run, and the version-control steps that end it *)

\* Lines 1650-1660: what main reads from an entry of config['sections'], a
\* dict or a plain folder name.
FolderOf(section) ==
    IF section.kind = "dict" THEN Get(section, "folder") ELSE section
TitleOf(section) ==
    IF section.kind = "dict" THEN GetOr(section, "title", Get(section, "folder"))
    ELSE section
SlidesOf(section) ==
    IF section.kind = "dict" THEN Get(section, "slides") ELSE None
IsDraft(section) ==
    section.kind = "dict" /\ Truthy(GetOr(section, "draft", Bool(FALSE)))

\* Lines 1666-1671: the placeholder of a draft section.
DraftRecord(section) ==
    Dict([k \in {"section", "section_folder", "is_draft", "description"} |->
            CASE k = "section" -> TitleOf(section)
              [] k = "section_folder" -> FolderOf(section)
              [] k = "is_draft" -> Bool(TRUE)
              [] k = "description" -> GetOr(section, "description", Str(<< >>))])

\* The record under its section, the slides of the section left out.
CollectedWithoutSectionSlides(info, section) ==
    Dict(Put(Put(info.val, "section", TitleOf(section)),
             "section_folder", FolderOf(section)))

\* Lines 1705-1710 and 1718-1723: main files the record under its section.
CollectedUnder(info, section) ==
    LET underSection ==
            Put(Put(info.val, "section", TitleOf(section)),
                "section_folder", FolderOf(section))
    IN Dict(IF Truthy(SlidesOf(section))
            THEN Put(underSection, "section_slides", SlidesOf(section))
            ELSE underSection)

\* config.get('slides') or config.get('data_files') or config.get('links')
HasRootContent(cfg) ==
    \/ Truthy(Get(cfg, "slides"))
    \/ Truthy(Get(cfg, "data_files"))
    \/ Truthy(Get(cfg, "links"))

\* One entry of the work main has yet to do.
SectionWork(section) == [kind |-> "section", section |-> section, path |-> << >>]
FileWork(kind, section, path) == [kind |-> kind, section |-> section, path |-> path]

\* A set as a list, in each of its orders.
Orderings(set) ==
    {q \in [1..Cardinality(set) -> set] :
        \A i, j \in 1..Cardinality(set) : q[i] = q[j] => i = j}

\* Path(folder).glob(pattern): the entries of the folder with a matching name
FolderGlob(folder, pattern, files) ==
    {p \in Children(folder, files) : fnmatch(PathName(p), pattern)}

Contains(str, sub) ==
    \E i \in 1..(Len(str) - Len(sub) + 1) : SubSeq(str, i, i + Len(sub) - 1) = sub

Checkpoints ==
    <<".", "i", "p", "y", "n", "b", "_", "c", "h", "e", "c", "k", "p", "o", "i",
      "n", "t", "s">>

\* Lines 1684-1691: the patterns of a section, without the folder prefix.
NormalizedPatterns(raw_patterns, folder) ==
    LET folder_prefix == PathName(folder) \o Slash
    IN [i \in 1..Len(raw_patterns) |->
           IF raw_patterns[i].kind = "str"
              /\ StartsWith(raw_patterns[i].val, folder_prefix)
           THEN Str(SubSeq(raw_patterns[i].val, Len(folder_prefix) + 1,
                           Len(raw_patterns[i].val)))
           ELSE raw_patterns[i]]

\* The step main goes to when the work left is rest.
AfterWork(rest) == IF rest = << >> THEN "processed" ELSE "sections"

\* The start of main with the old output directory left in place.
StartMainKeepingOutput ==
    /\ pc = "main"
    /\ LET sections == GetOr(config, "sections", List(<< >>))
       IN /\ todo' = [i \in 1..Len(sections.val) |-> SectionWork(sections.val[i])]
          /\ pc' = IF ~Truthy(sections) /\ ~HasRootContent(config) THEN "done"
                   ELSE AfterWork(sections.val)
          /\ exit_code' = IF ~Truthy(sections) /\ ~HasRootContent(config)
                          THEN Num(0) ELSE exit_code
    /\ UNCHANGED <<config, mergeVars, metaVars, notebook, fs, out_files, ret,
                   processed_items, args, env, sources, attempts, repo, pushes>>

\* Lines 1626-1647: the output directory is emptied and the sections are
\* read; with no section and no root-level content main returns.
StartMain ==
    /\ pc = "main"
    /\ out_files' = << >>
    /\ LET sections == GetOr(config, "sections", List(<< >>))
       IN /\ todo' = [i \in 1..Len(sections.val) |-> SectionWork(sections.val[i])]
          /\ pc' = IF ~Truthy(sections) /\ ~HasRootContent(config) THEN "done"
                   ELSE AfterWork(sections.val)
          /\ exit_code' = IF ~Truthy(sections) /\ ~HasRootContent(config)
                          THEN Num(0) ELSE exit_code
    /\ UNCHANGED <<config, mergeVars, metaVars, notebook, fs, ret,
                   processed_items, args, env, sources, attempts, repo, pushes>>

\* Lines 1662-1672: a draft section leaves a placeholder and is not scanned.
DraftSection ==
    /\ pc = "sections"
    /\ Head(todo).kind = "section"
    /\ IsDraft(Head(todo).section)
    /\ processed_items' = Append(processed_items, DraftRecord(Head(todo).section))
    /\ todo' = Tail(todo)
    /\ pc' = AfterWork(Tail(todo))
    /\ UNCHANGED <<config, mergeVars, metaVars, notebook, fs, out_files, ret,
                   exit_code, args, env, sources, attempts, repo, pushes>>

FolderExists(section, files) ==
    /\ Truthy(FolderOf(section))
    /\ FolderOf(section).val \in files \cup Dirs(files)

\* Lines 1674-1676: a section without a folder on disk is passed over.
MissingFolder ==
    /\ pc = "sections"
    /\ Head(todo).kind = "section"
    /\ ~IsDraft(Head(todo).section)
    /\ ~FolderExists(Head(todo).section, fs)
    /\ todo' = Tail(todo)
    /\ pc' = AfterWork(Tail(todo))
    /\ UNCHANGED <<config, mergeVars, metaVars, notebook, fs, out_files, ret,
                   processed_items, exit_code, args, env, sources, attempts,
                   repo, pushes>>

\* Lines 1678-1697 and 1714: the section archive is written and the folder
\* is scanned, for notebooks then for markdown files; each scan returns its
\* files in an order of the file system's choosing.
ScanSection ==
    /\ pc = "sections"
    /\ Head(todo).kind = "section"
    /\ ~IsDraft(Head(todo).section)
    /\ FolderExists(Head(todo).section, fs)
    /\ LET section == Head(todo).section
           folder == FolderOf(section).val
           notebooks == {p \in FolderGlob(folder, <<"*">> \o Ext_ipynb, fs) :
                            ~Contains(p, Checkpoints)}
           pages == FolderGlob(folder, <<"*", ".", "m", "d">>, fs)
       IN /\ out_files' =
                IF section.kind = "dict" /\ Truthy(Get(section, "data_files"))
                THEN Put(out_files,
                         PathJoin(folder, PathName(folder) \o Ext_data_zip),
                         create_data_zip(
                             NormalizedPatterns(section.val["data_files"].val,
                                                folder),
                             folder, fs))
                ELSE out_files
          /\ \E first \in Orderings(notebooks), then \in Orderings(pages) :
                todo' = [i \in 1..Len(first) |->
                            FileWork("notebook", section, first[i])]
                        \o [i \in 1..Len(then) |->
                               FileWork("markdown", section, then[i])]
                        \o Tail(todo)
          /\ pc' = AfterWork(todo')
    /\ UNCHANGED <<config, mergeVars, metaVars, notebook, fs, ret,
                   processed_items, exit_code, args, env, sources, attempts,
                   repo, pushes>>

\* Lines 1697-1711: one notebook of the scan is processed and its record,
\* if it has one, is collected.
ScanNotebook ==
    /\ pc = "sections"
    /\ Head(todo).kind = "notebook"
    /\ \E done \in {process_notebook(Head(todo).path, sources[Head(todo).path],
                                     config, fs, out_files)} :
          /\ file_path' = Head(todo).path
          /\ notebook' = sources[Head(todo).path]
          /\ meta' = done.own
          /\ merged' = done.metadata
          /\ overrides' = _iter_metadata_overrides(config)
          /\ applied' = MergedOverrides(Head(todo).path, config)
          /\ out_files' = done.written
          /\ ret' = done.info
          /\ processed_items' =
                IF Truthy(done.info)
                THEN Append(processed_items,
                            CollectedUnder(done.info, Head(todo).section))
                ELSE processed_items
          /\ exit_code' = IF done.exited THEN Num(1) ELSE exit_code
          /\ todo' = Tail(todo)
          /\ pc' = IF done.exited THEN "exited" ELSE AfterWork(Tail(todo))
    /\ UNCHANGED <<config, mergeVars, fs, args, env, sources, attempts, repo,
                   pushes>>

\* Lines 1714-1724: one markdown file of the scan is processed and its
\* record is collected.
ScanMarkdown ==
    /\ pc = "sections"
    /\ Head(todo).kind = "markdown"
    /\ \E done \in {process_markdown(Head(todo).path, sources[Head(todo).path],
                                     config,
                                     IO(fs, env.newer, out_files, attempts),
                                     env)} :
          /\ file_path' = Head(todo).path
          /\ meta' = done.own
          /\ merged' = done.metadata
          /\ overrides' = _iter_metadata_overrides(config)
          /\ applied' = MergedOverrides(Head(todo).path, config)
          /\ out_files' = done.io.written
          /\ fs' = done.io.files
          /\ env' = [env EXCEPT !.newer = done.io.newer]
          /\ attempts' = done.io.ran
          /\ ret' = done.info
          /\ processed_items' =
                IF Truthy(done.info)
                THEN Append(processed_items,
                            CollectedUnder(done.info, Head(todo).section))
                ELSE processed_items
          /\ exit_code' = IF done.io.exited THEN Num(1) ELSE exit_code
          /\ todo' = Tail(todo)
          /\ pc' = IF done.io.exited THEN "exited" ELSE AfterWork(Tail(todo))
    /\ UNCHANGED <<config, mergeVars, notebook, args, sources, repo, pushes>>

\* config.get('output_dir', 'docs')
OutputDir(cfg) == GetOr(cfg, "output_dir", Str(<<"d", "o", "c", "s">>)).val

\* Lines 1336-1364: the files above the size threshold, those of the output
\* directory and the presentations, PDFs and archives of the root.
LargeFiles(cfg, written, files, e) ==
    {q \in e.large :
        \/ \E p \in DOMAIN written : q = PathJoin(OutputDir(cfg), p)
        \/ /\ q \in files
           /\ PathParent(q) = <<".">>
           /\ PathSuffix(q) \in {Ext_pptx, Ext_pdf, <<".", "z", "i", "p">>}}

\* Lines 1297-1406: the caller's repository after setup_git_lfs. The
\* patterns with filter=lfs in .gitattributes are r.gitattributes.
setup_git_lfs(cfg, written, files, r, e) ==
    LET installed == IF r.gitattributes = {}
                     THEN [r EXCEPT !.lfs_installed = TRUE] ELSE r
        new_patterns == LargeFiles(cfg, written, files, e) \ r.gitattributes
    IN IF e.git = "none" THEN r
       ELSE IF r.gitattributes = {} /\ e.lfs # "ok" THEN r
       ELSE IF e.track = "ok"
       THEN [installed EXCEPT !.gitattributes = @ \cup new_patterns]
       ELSE installed

\* Lines 1733-1735 of main.
SetupGitLfs ==
    /\ pc = "published"
    /\ repo' = setup_git_lfs(config, out_files, fs, repo, env)
    /\ pc' = "lfs"
    /\ UNCHANGED <<config, mergeVars, metaVars, runVars, args, env, sources,
                   attempts, todo, pushes>>

\* Lines 1547-1614: whether the commit and push of the main branch went
\* through, the repository afterwards and the pushes made.
commit_and_push_main(cfg, r, e) ==
    LET branch == GetOr(cfg, "github_branch", Str(<<"m", "a", "i", "n">>)).val
        switched == r.branch # branch
        onBranch == [r EXCEPT !.branch = branch]
        added == [onBranch EXCEPT !.staged = TRUE]
        committed == IF e.commit = "ok"
                     THEN [added EXCEPT !.staged = FALSE, !.commits = @ + 1]
                     ELSE added
    IN IF e.git = "none" THEN [ok |-> TRUE, repo |-> r, pushed |-> << >>]
       ELSE IF switched /\ e.switch # "ok"
       THEN [ok |-> FALSE, repo |-> r, pushed |-> << >>]
       ELSE IF e.add # "ok"
       THEN [ok |-> FALSE, repo |-> onBranch, pushed |-> << >>]
       ELSE IF e.commit = "fail"
       THEN [ok |-> FALSE, repo |-> added, pushed |-> << >>]
       ELSE IF e.push # "ok"
       THEN [ok |-> FALSE, repo |-> committed, pushed |-> <<branch>>]
       ELSE [ok |-> TRUE, repo |-> [committed EXCEPT !.branch = r.branch],
             pushed |-> <<branch>>]

\* The commit and push of the main branch, a failure not ending the run.
CommitAndPushMainThenGoOn ==
    /\ pc = "lfs"
    /\ args.commit
    /\ \E main \in {commit_and_push_main(config, repo, env)} :
          /\ repo' = main.repo
          /\ pushes' = pushes \o main.pushed
    /\ pc' = "committed"
    /\ UNCHANGED <<config, mergeVars, metaVars, runVars, args, env, sources,
                   attempts, todo>>

\* Lines 1737-1742 of main: with --commit the main branch is committed and
\* pushed, and a failure ends the run with status 1.
CommitAndPushMain ==
    /\ pc = "lfs"
    /\ args.commit
    /\ \E main \in {commit_and_push_main(config, repo, env)} :
          /\ repo' = main.repo
          /\ pushes' = pushes \o main.pushed
          /\ exit_code' = IF main.ok THEN exit_code ELSE Num(1)
          /\ pc' = IF main.ok THEN "committed" ELSE "exited"
    /\ UNCHANGED <<config, mergeVars, metaVars, notebook, fs, out_files, ret,
                   processed_items, args, env, sources, attempts, todo>>

BuildDir ==
    <<"b", "u", "i", "l", "d", "-", "c", "o", "d", "e", "s", "p", "a", "c",
      "e", "s">>
ReadmeMd == <<"R", "E", "A", "D", "M", "E", ".", "m", "d">>

\* Lines 779-858: the files on disk once build-codespaces is rebuilt from
\* the folders of the sections that are not drafts.
prepare_codespaces_build(cfg, files) ==
    LET kept == {f \in files : ~IsBelow(f, BuildDir)}
        sections == GetOr(cfg, "sections", List(<< >>)).val
        copied(i) ==
            IF IsDraft(sections[i]) \/ ~Truthy(FolderOf(sections[i]))
               \/ FolderOf(sections[i]).val \notin Dirs(kept)
            THEN {}
            ELSE {PathJoin(BuildDir,
                           PathJoin(PathName(FolderOf(sections[i]).val),
                                    ArcName(f, FolderOf(sections[i]).val))) :
                     f \in {g \in kept :
                               /\ g # FolderOf(sections[i]).val
                               /\ IsBelow(g, FolderOf(sections[i]).val)
                               /\ ~Contains(g, Checkpoints)}}
    IN kept \cup UNION {copied(i) : i \in 1..Len(sections)}
       \cup {PathJoin(BuildDir, ReadmeMd)}

\* Lines 1744-1745 of main.
PrepareCodespacesBuild ==
    /\ \/ pc = "committed"
       \/ pc = "lfs" /\ ~args.commit
    /\ fs' = prepare_codespaces_build(config, fs)
    /\ pc' = "prepared"
    /\ UNCHANGED <<config, mergeVars, metaVars, notebook, out_files, ret,
                   processed_items, exit_code, mainVars>>

\* Lines 1444-1451: the temporary directory, entered in the files by its
\* path, once tempfile has created it.
TmpDir == <<"/", "t", "m", "p", "/", "p", "u", "b", "l", "i", "s", "h">>
WithTmpDir(files) == files \cup {TmpDir}

\* Lines 1541-1545: the finally block removes the directory of a
\* TemporaryDirectory; with --keep-temp tmp_ctx is None and nothing is removed.
Finally(keep_temp, files) == IF keep_temp THEN files ELSE files \ {TmpDir}

\* The distribution branch pushed whether --commit is given or not.
PushingWithoutCommit(cfg, commit, keep_temp, files, e) ==
    LET notebooks_branch ==
            GetOr(cfg, "notebooks_branch",
                  Str(<<"c", "o", "d", "e", "s", "p", "a", "c", "e", "s">>)).val
        staged == Finally(keep_temp, WithTmpDir(files))
    IN IF e.git = "none"
       THEN [result |-> TRUE, pushed |-> << >>, files |-> files]
       ELSE IF ~e.remote
       THEN [result |-> FALSE, pushed |-> << >>, files |-> files]
       ELSE IF BuildDir \notin Dirs(files)
       THEN [result |-> FALSE, pushed |-> << >>, files |-> files]
       ELSE IF e.tmp_init # "ok"
       THEN [result |-> FALSE, pushed |-> << >>, files |-> staged]
       ELSE IF e.tmp_commit = "fail"
       THEN [result |-> FALSE, pushed |-> << >>, files |-> staged]
       ELSE [result |-> e.tmp_push = "ok", pushed |-> <<notebooks_branch>>,
             files |-> staged]

\* The temporary directory removed at the end of the try block only.
RemovingOnSuccessOnly(cfg, commit, keep_temp, files, e) ==
    LET notebooks_branch ==
            GetOr(cfg, "notebooks_branch",
                  Str(<<"c", "o", "d", "e", "s", "p", "a", "c", "e", "s">>)).val
        staged == WithTmpDir(files)
    IN IF e.git = "none"
       THEN [result |-> TRUE, pushed |-> << >>, files |-> files]
       ELSE IF ~e.remote
       THEN [result |-> FALSE, pushed |-> << >>, files |-> files]
       ELSE IF BuildDir \notin Dirs(files)
       THEN [result |-> FALSE, pushed |-> << >>, files |-> files]
       ELSE IF e.tmp_init # "ok"
       THEN [result |-> FALSE, pushed |-> << >>, files |-> staged]
       ELSE IF e.tmp_commit = "fail"
       THEN [result |-> FALSE, pushed |-> << >>, files |-> staged]
       ELSE IF ~commit
       THEN [result |-> TRUE, pushed |-> << >>,
             files |-> Finally(keep_temp, staged)]
       ELSE IF e.tmp_push # "ok"
       THEN [result |-> FALSE, pushed |-> <<notebooks_branch>>, files |-> staged]
       ELSE [result |-> TRUE, pushed |-> <<notebooks_branch>>,
             files |-> Finally(keep_temp, staged)]

\* Lines 1408-1545: the value create_codespaces_branch returns, the pushes
\* it made from the temporary repository and the files it leaves. An
\* exception of a step between the creation of the temporary directory and
\* the commit is e.tmp_init.
create_codespaces_branch(cfg, commit, keep_temp, files, e) ==
    LET notebooks_branch ==
            GetOr(cfg, "notebooks_branch",
                  Str(<<"c", "o", "d", "e", "s", "p", "a", "c", "e", "s">>)).val
        staged == Finally(keep_temp, WithTmpDir(files))
    IN IF e.git = "none"
       THEN [result |-> TRUE, pushed |-> << >>, files |-> files]
       ELSE IF ~e.remote
       THEN [result |-> FALSE, pushed |-> << >>, files |-> files]
       ELSE IF BuildDir \notin Dirs(files)
       THEN [result |-> FALSE, pushed |-> << >>, files |-> files]
       ELSE IF e.tmp_init # "ok"
       THEN [result |-> FALSE, pushed |-> << >>, files |-> staged]
       ELSE IF e.tmp_commit = "fail"
       THEN [result |-> FALSE, pushed |-> << >>, files |-> staged]
       ELSE IF ~commit
       THEN [result |-> TRUE, pushed |-> << >>, files |-> staged]
       ELSE [result |-> e.tmp_push = "ok", pushed |-> <<notebooks_branch>>,
             files |-> staged]

\* Lines 1747-1751 of main: a False from create_codespaces_branch ends the
\* run with status 1; otherwise main returns and the status is 0.
CreateCodespacesBranch ==
    /\ pc = "prepared"
    /\ \E branch \in {create_codespaces_branch(config, args.commit,
                                                args.keep_temp, fs, env)} :
          /\ pushes' = pushes \o branch.pushed
          /\ fs' = branch.files
          /\ exit_code' = IF branch.result THEN Num(0) ELSE Num(1)
          /\ pc' = IF branch.result THEN "done" ELSE "exited"
    /\ UNCHANGED <<config, mergeVars, metaVars, notebook, out_files, ret,
                   processed_items, args, env, sources, attempts, todo, repo>>

----------------------------------------------------------------------------
(* The index builder applied to a list of collected records *)

MaxItems == 4

Section1 == <<"s", "e", "c", "t", "i", "o", "n", "1">>
Section2 == <<"s", "e", "c", "t", "i", "o", "n", "2">>

\* sections: [{folder: section1, title: intro}, {folder: section2}]
TwoSections ==
    List(<<D2("folder", Str(Section1), "title", Str(<<"i", "n", "t", "r", "o">>)),
           D1("folder", Str(Section2))>>)

IndexConfig ==
    Dict(Put(D2("title", Str(<<"d", "o", "j", "o">>), "sections", TwoSections).val,
             "github_repo", Str(<<"o", "/", "r">>)))

NbPath(folder, name) == folder \o Slash \o name \o Ext_ipynb
MdPath(folder, name) == folder \o Slash \o name \o <<".", "m", "d">>

OneLink == List(<<D2("name", Str(<<"d", "o", "c", "s">>), "url", Str(<<"d", ".", "i", "o">>))>>)

\* What the files of the two section folders can yield; the position in
\* IndexSections is the section the record was collected under.
IndexRecords ==
    { <<1, notebook_info(NbPath(Section1, <<"b">>), D1("order", Num(2)))>>,
      <<1, notebook_info(NbPath(Section1, <<"a">>), D1("order", Num(1)))>>,
      <<1, notebook_info(NbPath(Section1, <<"z">>), D1("title", Str(<<"z">>)))>>,
      <<1, notebook_info(NbPath(Section1, <<"x">>), D1("title", Str(<<"x">>)))>>,
      <<1, notebook_info(NbPath(Section1, <<"c">>), D1("order", Num(1)))>>,
      <<1, notebook_info(NbPath(Section1, <<"k">>), D1("order", Num(0)))>>,
      <<1, markdown_info(MdPath(Section1, <<"x">>), D1("links", OneLink))>>,
      <<2, notebook_info(NbPath(Section2, <<"y">>), D1("title", Str(<<"y">>)))>> }

IsMarkdown(item) == Get(item, "type").kind = "str"

\* The records in an order main can collect them in: section by section,
\* the notebooks of a folder before its markdown files, no file twice.
Collectable(recs) ==
    \A i, j \in 1..Len(recs) :
        i < j => /\ recs[i] # recs[j]
                 /\ recs[i][1] <= recs[j][1]
                 /\ recs[i][1] = recs[j][1]
                       => ~(IsMarkdown(recs[i][2]) /\ ~IsMarkdown(recs[j][2]))

IndexInputs ==
    {recs \in UNION {[1..n -> IndexRecords] : n \in 0..MaxItems} :
        Collectable(recs)}

InitIndex ==
    /\ config = IndexConfig
    /\ \E recs \in IndexInputs :
          processed_items =
              [i \in 1..Len(recs) |->
                  Collected(recs[i][2], TwoSections.val[recs[i][1]])]
    /\ rules = << >>
    /\ shape = "list"
    /\ file_path = << >>
    /\ meta = None
    /\ merged = None
    /\ overrides = << >>
    /\ applied = {}
    /\ merged_again = None
    /\ merged_patch = None
    /\ notebook = None
    /\ fs = {}
    /\ out_files = << >>
    /\ ret = None
    /\ exit_code = None
    /\ Undisturbed
    /\ pc = "processed"

NextIndex == CreateIndex

SpecIndex == InitIndex /\ [][NextIndex]_vars

----------------------------------------------------------------------------
(* The notebook processor applied to one notebook of a section folder *)

MaxCells == 3

SlidesPdf == <<"s", "l", "i", "d", "e", "s", ".", "p", "d", "f">>
ImgPng == <<"i", "m", "g", ".", "p", "n", "g">>
DataCsv == <<"d", "a", "t", "a", ".", "c", "s", "v">>
AnyCsv == <<"*", ".", "c", "s", "v">>
Hide == <<"h", "i", "d", "e">>

\* The cell at position i of a notebook, of one of four kinds.
CellAt(kind, i) ==
    CASE kind = "solution_code" ->
            [cell_type |-> "code",
             metadata |-> D1("tags", List(<<Str(Solution)>>)),
             source |-> <<Line("answer {}", <<<<ToString(i)>>>>)>>,
             execution_count |-> Num(i), outputs |-> <<"result">>]
      [] kind = "code" ->
            [cell_type |-> "code",
             metadata |-> D1("tags", List(<<Str(Hide)>>)),
             source |-> <<Line("code {}", <<<<ToString(i)>>>>)>>,
             execution_count |-> Num(i), outputs |-> <<"result">>]
      [] kind = "markdown" ->
            MarkdownCell(<<Line("text {}", <<<<ToString(i)>>>>),
                           Line("![]({})", <<ImgPng>>)>>)
      [] kind = "solution_markdown" ->
            [MarkdownCell(<<Line("answer {}", <<<<ToString(i)>>>>)>>)
                EXCEPT !.metadata = D1("tags", List(<<Str(Hide), Str(Solution)>>))]

CellKinds == {"solution_code", "code", "markdown", "solution_markdown"}

CellLists ==
    {[i \in 1..n |-> CellAt(kinds[i], i)] :
        n \in 0..MaxCells, kinds \in [1..MaxCells -> CellKinds]}

\* The workshop blocks a notebook can embed.
WorkshopBlocks ==
    { Dict(EmptyDict),
      D1("title", Str(<<"t">>)),
      D2("title", Str(<<"t">>), "slides", Str(SlidesPdf)),
      D1("data_files", List(<<Str(AnyCsv)>>)),
      Dict(Put(D2("install", Str(<<" ", "p", "d", " ", " ", "n", "p", " ">>),
                  "slides", Str(SlidesPdf)).val,
               "data_files", List(<<Str(AnyCsv)>>))),
      D2("install", List(<<Str(<<"p", "d">>), Str(<<" ">>)>>),
         "data_files", List(<<Str(AnyCsv)>>)),
      D1("install", Str(<<" ">>)),
      D2("install", List(<< >>), "data_files", List(<<Str(AnyCsv)>>)) }

\* The notebook metadata: no workshop block, or one of the blocks.
NotebookMetadatas ==
    {Dict(EmptyDict)} \cup {D1("workshop", block) : block \in WorkshopBlocks}

\* The override rules of the configuration file.
NotebookRules ==
    { << >>,
      <<<<Str(Pat_intro), Dict(EmptyDict)>>>>,
      <<<<Str(Pat_s1_ipynb), D1("title", Str(<<"t">>))>>>>,
      <<<<Str(Pat_class), D1("title", Str(<<"t">>))>>>> }

NotebookConfig(rs) ==
    Dict(Put(Put(Written(rs, "mapping").val,
                 "github_repo", Str(<<"o", "/", "r">>)),
             "sections",
             List(<<D2("folder", Str(Section1), "title", Str(<<"i", "n", "t", "r", "o">>))>>)))

\* The files of the working directory.
FileSets ==
    { {},
      {Section1 \o Slash \o SlidesPdf, Section1 \o Slash \o ImgPng,
       Section1 \o Slash \o DataCsv},
      {SlidesPdf, Section1 \o Slash \o DataCsv} }

InitNotebook ==
    /\ rules \in NotebookRules
    /\ shape = "mapping"
    /\ config = NotebookConfig(rules)
    /\ file_path = Path_s1_intro
    /\ \E cells \in CellLists, metadata \in NotebookMetadatas :
          notebook = [cells |-> cells, metadata |-> metadata]
    /\ fs \in FileSets
    /\ meta = None
    /\ merged = None
    /\ overrides = << >>
    /\ applied = {}
    /\ merged_again = None
    /\ merged_patch = None
    /\ out_files = << >>
    /\ ret = None
    /\ processed_items = << >>
    /\ exit_code = None
    /\ Undisturbed
    /\ pc = "start"

NextNotebook == ProcessNotebook \/ CreateIndex

SpecNotebook == InitNotebook /\ [][NextNotebook]_vars

----------------------------------------------------------------------------
(* The whole run: main on a configuration, a source tree and a repository *)

A_ipynb == Section1 \o Slash \o <<"a">> \o Ext_ipynb
B_ipynb == Section1 \o Slash \o <<"b">> \o Ext_ipynb
C_ipynb == Section2 \o Slash \o <<"c">> \o Ext_ipynb
Page_md == Section1 \o Slash \o <<"p", "a", "g", "e", ".", "m", "d">>
DeckPdf == Section1 \o Slash \o <<"d", "e", "c", "k", ".", "p", "d", "f">>
NowherePdf == <<"n", "o", "w", "h", "e", "r", "e", ".", "p", "d", "f">>
Nowhere == <<"n", "o", "w", "h", "e", "r", "e">>

\* The source trees: with the slide deck of section1 and without it.
MainFileSets ==
    { {A_ipynb, B_ipynb, C_ipynb, Page_md, Section1 \o Slash \o DataCsv, DeckPdf},
      {A_ipynb, B_ipynb, C_ipynb, Page_md, Section1 \o Slash \o DataCsv} }

\* A notebook of one markdown cell with the given workshop block.
NotebookWith(block) ==
    [cells |-> <<CellAt("markdown", 1)>>, metadata |-> D1("workshop", block)]

\* What the files hold. The two notebooks of section1 carry the same order
\* or different ones; the notebook of section2 names the deck of section1
\* as its slides or names none; the front matter of the page parses or not.
\* In the third tree the files of section1 name the deck of their folder,
\* by its path from the project root or by its name.
MainSources ==
    { (A_ipynb :> NotebookWith(D2("title", Str(<<"A">>), "order", Num(1))))
      @@ (B_ipynb :> NotebookWith(D2("title", Str(<<"B">>), "order", Num(1))))
      @@ (C_ipynb :> NotebookWith(D2("title", Str(<<"C">>), "slides", Str(DeckPdf))))
      @@ (Page_md :> <<Fence, <<"kv", "title", Str(<<"P">>)>>, Fence,
                       <<"h2", <<"I", "n", "t", "r", "o">> >>, <<"text">> >>),
      (A_ipynb :> NotebookWith(D2("title", Str(<<"A">>), "order", Num(1))))
      @@ (B_ipynb :> NotebookWith(D2("title", Str(<<"B">>), "order", Num(2))))
      @@ (C_ipynb :> NotebookWith(D1("title", Str(<<"C">>))))
      @@ (Page_md :> <<Fence, <<"bad">>, Fence, <<"text">> >>),
      (A_ipynb :> NotebookWith(D2("title", Str(<<"A">>), "slides", Str(DeckPdf))))
      @@ (B_ipynb :> NotebookWith(D2("title", Str(<<"B">>),
                                     "slides", Str(PathName(DeckPdf)))))
      @@ (C_ipynb :> NotebookWith(D1("title", Str(<<"C">>))))
      @@ (Page_md :> <<Fence, <<"kv", "slides", Str(DeckPdf)>>, Fence,
                       <<"text">> >>) }

Repo_o_r == Str(<<"o", "/", "r">>)
Soon == Str(<<"s", "o", "o", "n">>)
Intro == Str(<<"i", "n", "t", "r", "o">>)
Same == Str(<<"s", "a", "m", "e">>)
Zeta == Str(<<"z", "e", "t", "a">>)
Alpha == Str(<<"a", "l", "p", "h", "a">>)

\* workshop-config.yaml, as load_config returns it.
MainConfigs ==
    { \* a draft section that declares slides and data files, then a section
      Dict(("github_repo" :> Repo_o_r)
           @@ ("sections" :>
                 List(<<Dict(("folder" :> Str(Section1)) @@ ("title" :> Intro)
                             @@ ("draft" :> Bool(TRUE))
                             @@ ("description" :> Soon)
                             @@ ("slides" :> Str(NowherePdf))
                             @@ ("data_files" :> List(<<Str(AnyCsv)>>))),
                        D1("folder", Str(Section2))>>))),
      \* a section and a draft section under one title
      Dict(("github_repo" :> Repo_o_r)
           @@ ("sections" :>
                 List(<<D2("folder", Str(Section1), "title", Same),
                        Dict(("folder" :> Str(Section2)) @@ ("title" :> Same)
                             @@ ("draft" :> Bool(TRUE)))>>))),
      \* two sections under one title
      Dict(("github_repo" :> Repo_o_r)
           @@ ("sections" :>
                 List(<<D2("folder", Str(Section1), "title", Same),
                        D2("folder", Str(Section2), "title", Same)>>))),
      \* sections given as folder names
      Dict(("github_repo" :> Repo_o_r)
           @@ ("sections" :> List(<<Str(Section2), Str(Section1)>>))),
      \* titled sections, the second with slides and data files
      Dict(("github_repo" :> Repo_o_r)
           @@ ("sections" :>
                 List(<<D2("folder", Str(Section2), "title", Zeta),
                        Dict(("folder" :> Str(Section1)) @@ ("title" :> Alpha)
                             @@ ("slides" :> Str(DeckPdf))
                             @@ ("data_files" :>
                                   List(<<Str(Section1 \o Slash \o AnyCsv)>>)))>>))),
      \* root-level slides that are nowhere
      Dict(("github_repo" :> Repo_o_r)
           @@ ("slides" :> Str(NowherePdf))
           @@ ("sections" :> List(<<D1("folder", Str(Section1))>>))),
      \* nothing to publish
      D1("github_repo", Repo_o_r),
      \* root-level links and no section
      D2("github_repo", Repo_o_r, "links", OneLink),
      \* a section whose folder is not there and whose slides are nowhere
      Dict(("github_repo" :> Repo_o_r)
           @@ ("sections" :>
                 List(<<D2("folder", Str(Nowhere), "slides", Str(NowherePdf)),
                        D1("folder", Str(Section1))>>))) }

DocsDeck == <<"d", "o", "c", "s", "/">> \o DeckPdf

InRepo ==
    [PlainEnv EXCEPT !.git = "repo", !.remote = TRUE, !.lfs = "ok",
                     !.large = {DocsDeck}]

\* What the run finds outside.
MainEnvs ==
    { PlainEnv,
      InRepo,
      [InRepo EXCEPT !.remote = FALSE, !.large = {}],
      [InRepo EXCEPT !.push = "fail"],
      [InRepo EXCEPT !.tmp_commit = "fail", !.lfs = "fail"],
      [InRepo EXCEPT !.tmp_push = "fail", !.commit = "nothing", !.track = "fail"],
      [InRepo EXCEPT !.switch = "fail", !.large = {}],
      [InRepo EXCEPT !.tmp_init = "fail", !.commit = "fail"] }

\* An earlier run has left its index in the output directory.
StaleIndex == IndexHtml :> [type |-> "html", body |-> << >>]

InitMain ==
    /\ config \in MainConfigs
    /\ fs \in MainFileSets
    /\ sources \in MainSources
    /\ env \in MainEnvs
    /\ args \in [commit : BOOLEAN, keep_temp : {FALSE}]
    /\ repo \in {[CleanRepo EXCEPT !.branch = b] : b \in {<<"m", "a", "i", "n">>, <<"d", "e", "v">>}}
    /\ out_files = StaleIndex
    /\ rules = << >>
    /\ shape = "mapping"
    /\ file_path = << >>
    /\ notebook = None
    /\ meta = None
    /\ merged = None
    /\ overrides = << >>
    /\ applied = {}
    /\ merged_again = None
    /\ merged_patch = None
    /\ ret = None
    /\ processed_items = << >>
    /\ exit_code = None
    /\ attempts = << >>
    /\ todo = << >>
    /\ pushes = << >>
    /\ pc = "main"

NextMain ==
    \/ StartMain
    \/ DraftSection
    \/ MissingFolder
    \/ ScanSection
    \/ ScanNotebook
    \/ ScanMarkdown
    \/ CreateIndex
    \/ SetupGitLfs
    \/ CommitAndPushMain
    \/ PrepareCodespacesBuild
    \/ CreateCodespacesBranch

SpecMain == InitMain /\ [][NextMain]_vars

----------------------------------------------------------------------------
(* The slide steps: convert_pptx_to_pdf and generate_slide_embed on a deck *)

DeckPptx == Section1 \o Slash \o <<"d", "e", "c", "k", ".", "p", "p", "t", "x">>

\* How an attempt with a tool run by subprocess.run can end: it wrote the
\* PDF and returned 0, returned 0 without writing, returned another
\* status, ran into the timeout, or raised (the tool is not installed).
SubprocessOutcomes == {"ok", "zero", "fail", "timeout", "raise"}

\* How the call of pptxtopdf.convert can end: it has no status.
CallOutcomes == {"ok", "zero", "raise"}

\* The deck is declared by a section (the index embeds it) or by the
\* front matter of a markdown file (its page embeds it).
SlideDeclarations ==
    { [by |-> Section1, slides |-> D1("slides", Str(DeckPptx))],
      [by |-> Page_md,
       slides |-> D1("slides", Str(PathName(DeckPptx)))] }

InitSlides ==
    /\ \E declared \in SlideDeclarations :
          /\ file_path = declared.by
          /\ merged = declared.slides
    /\ \E pdf \in {"absent", "stale", "fresh"} :
          /\ fs = {DeckPptx} \cup (IF pdf = "absent" THEN {} ELSE {DeckPdf})
          /\ \E platform \in {"darwin", "win32", "linux"},
                osascript \in SubprocessOutcomes, pptxtopdf \in CallOutcomes,
                soffice \in SubprocessOutcomes, unoconv \in SubprocessOutcomes,
                magick \in {"ok", "fail"} :
                env = [PlainEnv EXCEPT
                          !.platform = platform, !.osascript = osascript,
                          !.pptxtopdf = pptxtopdf, !.soffice = soffice,
                          !.unoconv = unoconv, !.magick = magick,
                          !.newer = IF pdf = "fresh" THEN {DeckPdf} ELSE {}]
    /\ config = Dict(EmptyDict)
    /\ rules = << >>
    /\ shape = "mapping"
    /\ meta = None
    /\ overrides = << >>
    /\ applied = {}
    /\ merged_again = None
    /\ merged_patch = None
    /\ notebook = None
    /\ out_files = << >>
    /\ ret = None
    /\ processed_items = << >>
    /\ exit_code = None
    /\ args = [commit |-> FALSE, keep_temp |-> FALSE]
    /\ sources = << >>
    /\ attempts = << >>
    /\ todo = << >>
    /\ repo = CleanRepo
    /\ pushes = << >>
    /\ pc = "slides"

\* The snippet generate_slide_embed returns
Html(snippet) == [kind |-> "html", val |-> snippet]

\* convert_pptx_to_pdf on the deck (line 885).
ConvertPptxToPdf ==
    /\ pc = "slides"
    /\ \E converted \in {convert_pptx_to_pdf(
                             DeckPptx, IO(fs, env.newer, out_files, attempts),
                             env)} :
          /\ ret' = converted.pdf
          /\ fs' = converted.io.files
          /\ env' = [env EXCEPT !.newer = converted.io.newer]
          /\ attempts' = converted.io.ran
    /\ pc' = "converted"
    /\ UNCHANGED <<config, mergeVars, metaVars, notebook, out_files,
                   processed_items, exit_code, args, sources, todo, repo,
                   pushes>>

\* generate_slide_embed as create_index calls it for the slides of a
\* section (line 1128) and as process_markdown calls it for the slides of
\* a markdown file.
GenerateSlideEmbed ==
    /\ pc = "slides"
    /\ \E embed \in {IF PathSuffix(file_path) = <<".", "m", "d">>
                     THEN generate_slide_embed(
                              merged.val["slides"].val, PathParent(file_path),
                              "markdown", None,
                              IO(fs, env.newer, out_files, attempts), env)
                     ELSE generate_slide_embed(
                              merged.val["slides"].val, PathParent(file_path),
                              "index", Str(PathName(file_path)),
                              IO(fs, env.newer, out_files, attempts), env)} :
          /\ ret' = Html(embed.html)
          /\ fs' = embed.io.files
          /\ env' = [env EXCEPT !.newer = embed.io.newer]
          /\ attempts' = embed.io.ran
          /\ out_files' = embed.io.written
          /\ exit_code' = IF embed.io.exited THEN Num(1) ELSE exit_code
          /\ pc' = IF embed.io.exited THEN "exited" ELSE "embedded"
    /\ UNCHANGED <<config, mergeVars, metaVars, notebook, processed_items,
                   args, sources, todo, repo, pushes>>

NextSlides == ConvertPptxToPdf \/ GenerateSlideEmbed

SpecSlides == InitSlides /\ [][NextSlides]_vars

----------------------------------------------------------------------------
(* create_data_zip applied to a list of patterns and a base directory *)

MaxPatterns == 2

ConfigYaml ==
    <<"w", "o", "r", "k", "s", "h", "o", "p", "-", "c", "o", "n", "f", "i",
      "g", ".", "y", "a", "m", "l">>

A_csv == <<"a", ".", "c", "s", "v">>
B_csv == <<"b", ".", "c", "s", "v">>
Sub == <<"s", "u", "b">>

\* The source trees: data files in the section folder and below it.
ZipFileSets ==
    { {A_ipynb, PathJoin(Section1, A_csv), PathJoin(Section1, B_csv),
       PathJoin(PathJoin(Section1, Sub), DataCsv)},
      {A_ipynb, PathJoin(Section1, A_csv),
       PathJoin(Section1, <<"n", "o", "t", "e", "s", ".", "t", "x", "t">>)} }

\* The patterns a data_files list is made of.
ZipPatterns ==
    { AnyCsv,
      A_csv,
      PathJoin(DotDot, PathJoin(Section1, A_csv)),
      PathJoin(Wildcard, AnyCsv),
      PathJoin(Section1, AnyCsv),
      <<"m", "i", "s", "s", "i", "n", "g", ".", "*">> }

\* The lists of one to MaxPatterns patterns.
ZipPatternLists ==
    UNION {[1..n -> {Str(pattern) : pattern \in ZipPatterns}] :
              n \in 1..MaxPatterns}

\* The data_files are declared by a notebook of section1 (the base
\* directory is the notebook's) or by the config (the base directory is
\* the one the program runs in).
InitZip ==
    /\ file_path \in {A_ipynb, ConfigYaml}
    /\ \E data_patterns \in ZipPatternLists :
          merged = D1("data_files", List(data_patterns))
    /\ fs \in ZipFileSets
    /\ config = Dict(EmptyDict)
    /\ rules = << >>
    /\ shape = "mapping"
    /\ meta = None
    /\ overrides = << >>
    /\ applied = {}
    /\ merged_again = None
    /\ merged_patch = None
    /\ notebook = None
    /\ out_files = << >>
    /\ ret = None
    /\ processed_items = << >>
    /\ exit_code = None
    /\ Undisturbed
    /\ pc = "zip"

\* Where the archive is written: lines 501-503 for a notebook, line 1075
\* for the config.
ZipPath(path) ==
    IF PathParent(path) = <<".">> THEN WorkshopZip
    ELSE PathJoin(PathName(PathParent(path)), PathStem(path) \o Ext_data_zip)

\* Lines 504 and 1076: the archive of the declared data files is written.
CreateDataZip ==
    /\ pc = "zip"
    /\ out_files' = Put(out_files, ZipPath(file_path),
                        create_data_zip(merged.val["data_files"].val,
                                        PathParent(file_path), fs))
    /\ pc' = "zipped"
    /\ UNCHANGED <<config, mergeVars, metaVars, notebook, fs, ret,
                   processed_items, exit_code, mainVars>>

NextZip == CreateDataZip

SpecZip == InitZip /\ [][NextZip]_vars

----------------------------------------------------------------------------
(* process_markdown applied to one markdown file *)

Pat_s1_md == Section1 \o Slash \o <<"*", ".", "m", "d">>

\* What the markdown file holds: a front matter block that does not parse
\* (alone, with lines that would parse, before an image), one that parses,
\* one that names slides that are nowhere, no block, and a block that is
\* never closed.
MarkdownContents ==
    { <<Fence, <<"bad">>, Fence, <<"h2", <<"I", "n", "t", "r", "o">> >>, <<"text">> >>,
      <<Fence, <<"kv", "title", Str(<<"P">>)>>, <<"bad">>, Fence, <<"text">> >>,
      <<Fence, <<"bad">>, Fence, <<"img", ImgPng>>, <<"text">> >>,
      <<Fence, <<"kv", "title", Str(<<"P">>)>>, Fence, <<"h2", <<"I", "n", "t", "r", "o">> >>,
        <<"text">> >>,
      <<Fence, <<"kv", "slides", Str(NowherePdf)>>, Fence, <<"text">> >>,
      <<<<"h2", <<"I", "n", "t", "r", "o">> >>, <<"text">> >>,
      <<Fence, <<"kv", "title", Str(<<"P">>)>>, <<"text">> >> }

\* The override rules of the configuration file: none, a title for the
\* markdown files of section1, slides that exist, slides that are nowhere,
\* data files, and a rule for other files.
MarkdownRules ==
    { << >>,
      <<<<Str(Pat_s1_md), D1("title", Str(<<"t">>))>>>>,
      <<<<Str(PathName(Page_md)), D1("slides", Str(PathName(DeckPdf)))>>>>,
      <<<<Str(Pat_s1_md), D1("slides", Str(NowherePdf))>>>>,
      <<<<Str(Pat_s1_md), D2("title", Str(<<"t">>),
                             "data_files", List(<<Str(AnyCsv)>>))>>>>,
      <<<<Str(Pat_s1_ipynb), D1("title", Str(<<"t">>))>>>> }

MarkdownFileSets ==
    { {Page_md},
      {Page_md, DeckPdf, Section1 \o Slash \o ImgPng,
       Section1 \o Slash \o DataCsv} }

InitMarkdown ==
    /\ rules \in MarkdownRules
    /\ shape = "mapping"
    /\ config = Dict(Put(Written(rules, "mapping").val, "github_repo", Repo_o_r))
    /\ file_path = Page_md
    /\ \E content \in MarkdownContents : sources = Page_md :> content
    /\ fs \in MarkdownFileSets
    /\ env \in {PlainEnv, [PlainEnv EXCEPT !.magick = "ok"]}
    /\ meta = None
    /\ merged = None
    /\ overrides = << >>
    /\ applied = {}
    /\ merged_again = None
    /\ merged_patch = None
    /\ notebook = None
    /\ out_files = << >>
    /\ ret = None
    /\ processed_items = << >>
    /\ exit_code = None
    /\ args = [commit |-> FALSE, keep_temp |-> FALSE]
    /\ attempts = << >>
    /\ todo = << >>
    /\ repo = CleanRepo
    /\ pushes = << >>
    /\ pc = "markdown"

\* Line 1716 of main: process_markdown on the file.
ProcessMarkdown ==
    /\ pc = "markdown"
    /\ \E done \in {process_markdown(file_path, sources[file_path], config,
                                     IO(fs, env.newer, out_files, attempts),
                                     env)} :
          /\ meta' = done.own
          /\ merged' = done.metadata
          /\ overrides' = _iter_metadata_overrides(config)
          /\ applied' = MergedOverrides(file_path, config)
          /\ out_files' = done.io.written
          /\ fs' = done.io.files
          /\ env' = [env EXCEPT !.newer = done.io.newer]
          /\ attempts' = done.io.ran
          /\ ret' = done.info
          /\ exit_code' = IF done.io.exited THEN Num(1) ELSE exit_code
          /\ pc' = IF done.io.exited THEN "exited" ELSE "rendered"
    /\ UNCHANGED <<config, mergeVars, file_path, notebook, processed_items,
                   args, sources, todo, repo, pushes>>

NextMarkdown == ProcessMarkdown

SpecMarkdown == InitMarkdown /\ [][NextMarkdown]_vars

----------------------------------------------------------------------------
(* generate_toc_from_markdown applied to the body of one markdown file *)

MaxLines == 2

\* The lines a body is made of: headings of the second level (plain, of two
\* words, beginning with a special character, holding one), a
\* heading of the third level, two lines of a fenced code block (a comment
\* that begins with "## ", an assignment) and a line of text.
TocLines ==
    { <<"h2", <<"S", "e", "t", "u", "p">> >>,
      <<"h2", <<"N", "e", "x", "t", " ", "S", "t", "e", "p", "s">> >>,
      <<"h2", <<"&", " ", "B">> >>,
      <<"h2", <<"Q", "&", "A">> >>,
      <<"h3", <<"S", "u", "b">> >>,
      <<"code", <<"#", "#", " ", "x">> >>,
      <<"code", <<"x", "=", "1">> >>,
      <<"text">> }

TocBodies == UNION {[1..n -> TocLines] : n \in 0..MaxLines}

\* The merged metadata of the file: no links, an empty list of links, a link.
TocMetadata ==
    { Dict(EmptyDict),
      D1("links", List(<< >>)),
      D1("links", List(<<Str(<<"u">>)>>)) }

InitToc ==
    /\ rules = << >>
    /\ shape = "mapping"
    /\ config = Dict(EmptyDict)
    /\ file_path = Page_md
    /\ \E content \in TocBodies : sources = Page_md :> content
    /\ fs = {Page_md}
    /\ env = PlainEnv
    /\ meta = None
    /\ merged \in TocMetadata
    /\ overrides = << >>
    /\ applied = {}
    /\ merged_again = None
    /\ merged_patch = None
    /\ notebook = None
    /\ out_files = << >>
    /\ ret = None
    /\ processed_items = << >>
    /\ exit_code = None
    /\ args = [commit |-> FALSE, keep_temp |-> FALSE]
    /\ attempts = << >>
    /\ todo = << >>
    /\ repo = CleanRepo
    /\ pushes = << >>
    /\ pc = "toc"

\* Lines 990-991 of process_markdown: the table of contents of the body.
GenerateToc ==
    /\ pc = "toc"
    /\ ret' = [kind |-> "toc",
               val |-> generate_toc_from_markdown(
                           sources[file_path], Truthy(Get(merged, "links")))]
    /\ pc' = "listed"
    /\ UNCHANGED <<config, mergeVars, file_path, meta, merged, overrides,
                   applied, notebook, fs, out_files, processed_items, exit_code,
                   args, env, sources, attempts, todo, repo, pushes>>

NextToc == GenerateToc

SpecToc == InitToc /\ [][NextToc]_vars

----------------------------------------------------------------------------
(* create_codespaces_branch applied to a prepared build directory *)

\* The files before the call: the build directory is there or not.
BranchFileSets ==
    { {A_ipynb, PathJoin(BuildDir, ReadmeMd)},
      {A_ipynb} }

BranchConfigs ==
    { D1("github_repo", Repo_o_r),
      D2("github_repo", Repo_o_r, "notebooks_branch", Str(<<"n", "b">>)) }

InitBranch ==
    /\ config \in BranchConfigs
    /\ fs \in BranchFileSets
    /\ env \in MainEnvs
    /\ args \in [commit : BOOLEAN, keep_temp : BOOLEAN]
    /\ repo = CleanRepo
    /\ sources = << >>
    /\ out_files = << >>
    /\ rules = << >>
    /\ shape = "mapping"
    /\ file_path = << >>
    /\ notebook = None
    /\ meta = None
    /\ merged = None
    /\ overrides = << >>
    /\ applied = {}
    /\ merged_again = None
    /\ merged_patch = None
    /\ ret = None
    /\ processed_items = << >>
    /\ exit_code = None
    /\ attempts = << >>
    /\ todo = << >>
    /\ pushes = << >>
    /\ pc = "prepared"

NextBranch == CreateCodespacesBranch

SpecBranch == InitBranch /\ [][NextBranch]_vars

----------------------------------------------------------------------------
(* Claims about the index *)

\* notebooks_md of the index page that was written
IndexBody == out_files[IndexHtml].body

\* What was rendered under the heading of a section: the elements after the
\* section's heading, up to the next section heading.
SectionBlock(section) ==
    LET body == IndexBody
        heading == CHOOSE i \in 1..Len(body) : body[i] = Frag("h2", <<section>>)
        later == {i \in (heading + 1)..Len(body) : body[i][1] = "h2"}
        last == IF later = {} THEN Len(body)
                ELSE (CHOOSE i \in later : \A j \in later : i <= j) - 1
    IN SubSeq(body, heading + 1, last)

\* The record an item heading was rendered from.
ItemOfHeading(section, heading) ==
    CHOOSE item \in {processed_items[i] : i \in 1..Len(processed_items)} :
        /\ item.val["section"] = section
        /\ \/ heading[1] = "h3_page" /\ IsMarkdown(item)
                 /\ item.val["html_file"] = heading[2][3]
           \/ heading[1] = "h3_colab" /\ ~IsMarkdown(item)
                 /\ item.val["exercise_file"] = heading[2][3]

\* The records of a section in the order their headings appear in the index.
RenderedItems(section) ==
    LET headings == SelectSeq(SectionBlock(section),
                              LAMBDA f : f[1] \in {"h3_page", "h3_colab"})
    IN [i \in 1..Len(headings) |-> ItemOfHeading(section, headings[i])]

ExampleNames == {<<"a">>, <<"b">>, <<"x">>, <<"z">>}

\* C1: in every section the items with an ordering key come before the items
\* without one, the former in ascending key order, the latter in descending
\* order of name; {b,2},{a,1},{z,None},{x,None} is rendered a, b, z, x.
C1_ItemOrder ==
    pc = "published" =>
        \A section \in SectionKeys(processed_items) :
            LET rendered == RenderedItems(section)
                items == SectionItems(processed_items, section)
            IN /\ Len(rendered) = Len(items)
               /\ Range(rendered) = Range(items)
               /\ \A i, j \in 1..Len(rendered) :
                     i < j =>
                        /\ HasOrder(rendered[j]) => HasOrder(rendered[i])
                        /\ (HasOrder(rendered[i]) /\ HasOrder(rendered[j]))
                              => rendered[i].val["order"].val
                                    <= rendered[j].val["order"].val
                        /\ (~HasOrder(rendered[i]) /\ ~HasOrder(rendered[j]))
                              => ~StrLess(ItemName(rendered[i]),
                                          ItemName(rendered[j]))
               /\ (/\ Len(items) = 4
                   /\ {ItemName(items[i]) : i \in 1..4} = ExampleNames
                   /\ \A i \in 1..4 : ~IsMarkdown(items[i]))
                     => [i \in 1..4 |-> ItemName(rendered[i])]
                           = << <<"a">>, <<"b">>, <<"z">>, <<"x">> >>

\* The records b(2), a(1), z, x were collected in that order and rendered.
C1_Witness ==
    /\ pc = "published"
    /\ Len(processed_items) = 4
    /\ [i \in 1..4 |-> ItemName(processed_items[i])]
          = << <<"b">>, <<"a">>, <<"z">>, <<"x">> >>
    /\ \A i \in 1..4 : ~IsMarkdown(processed_items[i])
    /\ [i \in 1..4 |-> ItemName(RenderedItems(Str(<<"i", "n", "t", "r", "o">>))[i])]
          = << <<"a">>, <<"b">>, <<"z">>, <<"x">> >>

----------------------------------------------------------------------------
(* Claims about the notebook processor *)

ExercisePath == Section1 \o Slash \o <<"i", "n", "t", "r", "o">> \o Ext_ipynb
AnswersPath == Section1 \o Slash \o <<"i", "n", "t", "r", "o">> \o Ext_answers

NotebooksWritten ==
    ExercisePath \in DOMAIN out_files /\ AnswersPath \in DOMAIN out_files

ExerciseOut == out_files[ExercisePath].cells
AnswersOut == out_files[AnswersPath].cells

\* How many cells precede the notebook's own cells in the answers variant.
Shift == Len(AnswersOut) - Len(notebook.cells)

HasSolutionTag(cell) ==
    /\ "tags" \in DOMAIN cell.metadata.val
    /\ Str(<<"s", "o", "l", "u", "t", "i", "o", "n">>)
          \in Range(cell.metadata.val["tags"].val)

SolutionPositions ==
    {i \in 1..Len(notebook.cells) : HasSolutionTag(notebook.cells[i])}

Replacement ==
    [cell_type |-> "code", metadata |-> [kind |-> "dict", val |-> << >>],
     source |-> << >>, execution_count |-> [kind |-> "none", val |-> 0],
     outputs |-> << >>]

\* C7: in the written exercise variant the cell at the position of every
\* solution-tagged cell of the notebook (shifted by the prepended cells) is an
\* empty code cell without outputs and tags, no other cell is one, so there
\* are exactly as many as there are tagged cells, and the answers variant has
\* the notebook's cell, unchanged, at each of those positions.
C7_SolutionCellsReplaced ==
    NotebooksWritten =>
        /\ Shift >= 0
        /\ Len(ExerciseOut) = Len(AnswersOut)
        /\ {j \in 1..Len(ExerciseOut) : ExerciseOut[j] = Replacement}
              = {Shift + i : i \in SolutionPositions}
        /\ \A i \in SolutionPositions : AnswersOut[Shift + i] = notebook.cells[i]
        /\ \A i \in (1..Len(notebook.cells)) \ SolutionPositions :
              /\ ExerciseOut[Shift + i].cell_type = notebook.cells[i].cell_type
              /\ ExerciseOut[Shift + i].source = notebook.cells[i].source
              /\ ExerciseOut[Shift + i].metadata = notebook.cells[i].metadata

C7_Witness ==
    /\ pc = "processed"
    /\ NotebooksWritten
    /\ Shift = 3
    /\ Cardinality(SolutionPositions) = 2
    /\ Len(notebook.cells) = 3
    /\ ExerciseOut[Shift + 1] = Replacement
    /\ AnswersOut[Shift + 1].outputs # << >>

Declares(key) == key \in DOMAIN merged.val /\ Truthy(merged.val[key])

\* What a prepended cell is for, by its first line.
Role(cell) ==
    IF cell.source = << >> THEN "empty"
    ELSE IF cell.cell_type = "code"
            /\ cell.source[1][1] = "# Install required packages"
    THEN "install"
    ELSE IF cell.cell_type = "code"
            /\ cell.source[1][1] = "# Download and extract data files"
    THEN "download"
    ELSE IF cell.cell_type = "markdown"
            /\ cell.source[1][1] = "**Slides:** [{}](./{})"
    THEN "slides"
    ELSE "original"

Roles(cells) == [i \in 1..Len(cells) |-> Role(cells[i])]

\* C8: when the merged metadata declares no data files and no install list,
\* the two written variants have as many cells as the notebook, one more when
\* a slide reference is declared, and none of them is a setup cell.
C8_CellCountWithoutSetup ==
    (NotebooksWritten /\ ~Declares("data_files") /\ ~Declares("install")) =>
        /\ Len(ExerciseOut) =
              Len(notebook.cells) + (IF Declares("slides") THEN 1 ELSE 0)
        /\ Len(AnswersOut) =
              Len(notebook.cells) + (IF Declares("slides") THEN 1 ELSE 0)
        /\ Range(Roles(ExerciseOut)) \cap {"install", "download"} = {}
        /\ Range(Roles(AnswersOut)) \cap {"install", "download"} = {}

C8_Witness ==
    /\ pc = "processed"
    /\ NotebooksWritten
    /\ ~Declares("data_files")
    /\ ~Declares("install")
    /\ Declares("slides")
    /\ Len(notebook.cells) = 2
    /\ Len(ExerciseOut) = 3

RoleRank(role) ==
    CASE role = "install" -> 1
      [] role = "download" -> 2
      [] role = "slides" -> 3
      [] OTHER -> 4

\* A package name of the declared install value, or of the default one.
InstallNamed ==
    IF "install" \notin DOMAIN merged.val THEN TRUE
    ELSE IF merged.val["install"].kind = "str"
    THEN \E i \in 1..Len(merged.val["install"].val) :
            merged.val["install"].val[i] # " "
    ELSE merged.val["install"].kind = "list"
         /\ Len(merged.val["install"].val) > 0

\* C9: the two written variants start with the same cells: the install cell
\* if one was made, then the download cell if data files are declared, then
\* the slide-link cell if a slide reference is declared, and right after
\* them come the notebook's cells in their order (in the exercise variant
\* each as it is or replaced).
C9_PrefixThenOriginalCells ==
    NotebooksWritten =>
        LET prefix == SubSeq(AnswersOut, 1, Shift)
            roles == Roles(prefix)
        IN /\ Shift >= 0
           /\ SubSeq(ExerciseOut, 1, Shift) = prefix
           /\ \A i \in 1..Shift : RoleRank(roles[i]) <= 3
           /\ \A i, j \in 1..Shift :
                 i < j => RoleRank(roles[i]) < RoleRank(roles[j])
           /\ "install" \in Range(roles) <=>
                 (Declares("data_files") \/ Declares("install")) /\ InstallNamed
           /\ "download" \in Range(roles) <=> Declares("data_files")
           /\ "slides" \in Range(roles) <=> Declares("slides")
           /\ Len(ExerciseOut) = Shift + Len(notebook.cells)
           /\ \A i \in 1..Len(notebook.cells) :
                 /\ AnswersOut[Shift + i] = notebook.cells[i]
                 /\ ExerciseOut[Shift + i].source
                       \in {notebook.cells[i].source, << >>}

C9_Witness ==
    /\ pc = "processed"
    /\ NotebooksWritten
    /\ Shift = 3
    /\ Roles(SubSeq(ExerciseOut, 1, 3)) = <<"install", "download", "slides">>
    /\ Len(notebook.cells) = 2
    /\ AnswersOut[4] = notebook.cells[1]

\* The notebook was skipped: nothing written or copied, no record returned
\* or collected, so no entry in the index.
Skipped ==
    /\ ret = None
    /\ out_files = << >>
    /\ processed_items = << >>
    /\ exit_code = None

\* C10 as stated: a notebook whose embedded workshop block is absent or
\* empty is skipped, whatever the override rules of the config are.
C10_SkippedWithoutEmbeddedBlock ==
    (pc # "start" /\ ~Truthy(meta)) => Skipped

\* C10: a notebook whose embedded workshop block is absent or empty is
\* skipped exactly when the metadata merged from the block and the matching
\* override rules is empty too; when a matching rule supplies a value the
\* notebook is processed: both variants are written and its record is
\* collected.
C10_SkippedIffMergedEmpty ==
    (pc # "start" /\ ~Truthy(meta)) =>
        IF merged = Dict(EmptyDict)
        THEN Skipped
        ELSE \/ pc = "exited"
             \/ /\ NotebooksWritten
                /\ ret # None
                /\ Len(processed_items) = 1

C10_Witness ==
    /\ pc = "published"
    /\ "workshop" \notin DOMAIN notebook.metadata.val
    /\ applied = {1}
    /\ Len(notebook.cells) = 2
    /\ Skipped

----------------------------------------------------------------------------
(* Claims about the merger *)

\* The values of the two overrides of a two-rule configuration.
ValuesA == overrides[1][2]
ValuesB == overrides[2][2]

\* C2 (as claimed): applying rule A and then rule B, both matching the file,
\* gives the same metadata as applying the deep merge of A's and B's values in
\* one step.
C2_SequentialEqualsCombinedPatch ==
    pc = "patched" => merged_patch = merged

\* At some key reached through mappings of all three, the file holds a
\* mapping, A sets a value that is no mapping and B sets a mapping.
RECURSIVE NonMappingThenMapping(_, _, _)
NonMappingThenMapping(b, a, o) ==
    \E k \in DOMAIN b.val \cap DOMAIN a.val \cap DOMAIN o.val :
        /\ b.val[k].kind = "dict"
        /\ o.val[k].kind = "dict"
        /\ \/ a.val[k].kind # "dict"
           \/ NonMappingThenMapping(b.val[k], a.val[k], o.val[k])

\* C2 (amended): applying A and then B gives the same metadata as applying the
\* deep merge of their values in one step, unless at some key the file's
\* metadata holds a mapping, A sets a non-mapping value and B sets a mapping.
C2_CombinedPatchUnlessReset ==
    (pc = "patched" /\ ~NonMappingThenMapping(meta, ValuesA, ValuesB))
        => merged_patch = merged

\* Both rules and the file hold a mapping at one key, and the two ways agree.
C2_Witness ==
    /\ pc = "patched"
    /\ ~NonMappingThenMapping(meta, ValuesA, ValuesB)
    /\ ValuesA # ValuesB
    /\ \E k \in DOMAIN meta.val \cap DOMAIN ValuesA.val \cap DOMAIN ValuesB.val :
          /\ meta.val[k].kind = "dict"
          /\ ValuesA.val[k].kind = "dict"
          /\ ValuesB.val[k].kind = "dict"

\* C3: applying the rule set to the result of a first application yields the
\* result of the first application.
C3_Idempotent ==
    pc \in {"remerged", "patched"} => merged_again = merged

\* Two rules were merged into the file's metadata and changed it.
C3_Witness ==
    /\ pc = "remerged"
    /\ Cardinality(applied) >= 2
    /\ merged # meta
    /\ merged_again = merged

\* The applied overrides that set the top-level key k.
Setters(k) == {i \in applied : k \in DOMAIN overrides[i][2].val}
LastSetter(k) == CHOOSE i \in Setters(k) : \A j \in Setters(k) : j <= i
\* What was last written at k before the last setter: by the applied override
\* before it that sets k, else by the file itself; None when nobody did.
ValueBeforeLast(k) ==
    LET earlier == Setters(k) \ {LastSetter(k)}
    IN IF earlier # {}
       THEN overrides[CHOOSE i \in earlier : \A j \in earlier : j <= i][2].val[k]
       ELSE Get(meta, k)

TopLevelKeys ==
    DOMAIN meta.val \cup DOMAIN merged.val
        \cup UNION {DOMAIN overrides[i][2].val : i \in 1..Len(overrides)}

\* C4: matching rules are merged in declaration order: the last matching rule
\* that sets a key decides it; a non-mapping value replaces what was there; a
\* mapping replaces a non-mapping and is merged key by key into a mapping,
\* whose other keys stay; keys no matching rule sets keep the file's value.
C4_LaterRuleWins ==
    pc # "start" =>
        \A k \in TopLevelKeys :
            IF Setters(k) = {}
            THEN /\ k \in DOMAIN merged.val <=> k \in DOMAIN meta.val
                 /\ k \in DOMAIN meta.val => merged.val[k] = meta.val[k]
            ELSE LET v == overrides[LastSetter(k)][2].val[k]
                     before == ValueBeforeLast(k)
                 IN /\ k \in DOMAIN merged.val
                    /\ v.kind # "dict" => merged.val[k] = v
                    /\ (v.kind = "dict" /\ before.kind # "dict")
                          => merged.val[k] = v
                    /\ (v.kind = "dict" /\ before.kind = "dict") =>
                          /\ merged.val[k].kind = "dict"
                          /\ \A n \in DOMAIN v.val :
                                /\ n \in DOMAIN merged.val[k].val
                                /\ v.val[n].kind # "dict"
                                      => merged.val[k].val[n] = v.val[n]
                          /\ \A n \in DOMAIN before.val \ DOMAIN v.val :
                                /\ n \in DOMAIN merged.val[k].val
                                /\ before.val[n].kind # "dict"
                                      => merged.val[k].val[n] = before.val[n]

\* Two matching rules set one key to mappings with different keys, and
\* another key of the file is set by neither.
C4_Witness ==
    /\ pc = "merged"
    /\ \E k \in TopLevelKeys :
          /\ Cardinality(Setters(k)) = 2
          /\ overrides[LastSetter(k)][2].val[k].kind = "dict"
          /\ ValueBeforeLast(k).kind = "dict"
          /\ DOMAIN ValueBeforeLast(k).val
                \ DOMAIN overrides[LastSetter(k)][2].val[k].val # {}
    /\ \E k \in DOMAIN meta.val : Setters(k) = {}

\* The overrides whose pattern glob-matches the file's path or bare name.
Matching ==
    {i \in 1..Len(overrides) :
        \/ fnmatch(file_path, overrides[i][1].val)
        \/ fnmatch(PathName(file_path), overrides[i][1].val)}

\* The values of the overrides with an index in sel, merged in order into acc.
RECURSIVE MergeSelected(_, _, _, _)
MergeSelected(acc, pairs, i, sel) ==
    IF i > Len(pairs) THEN acc
    ELSE MergeSelected(IF i \in sel THEN _deep_merge(acc, pairs[i][2]) ELSE acc,
                       pairs, i + 1, sel)

\* C5: a rule's values are merged exactly when its pattern glob-matches the
\* file's relative path or its bare name; "section1/*.ipynb" applies to
\* section1/intro.ipynb and not to section2/intro.ipynb; a file no rule
\* matches gets back its own metadata.
C5_MergedIffGlobMatches ==
    pc # "start" =>
        /\ applied = Matching
        /\ merged = MergeSelected(meta, overrides, 1, Matching)
        /\ \A i \in 1..Len(overrides) :
              overrides[i][1] = Str(Pat_s1_ipynb)
                  => (i \in applied <=> file_path = Path_s1_intro)
        /\ Matching = {} => merged = meta

\* For section2/intro.ipynb one rule matches by the bare name only and
\* another rule does not match.
C5_Witness ==
    /\ pc = "merged"
    /\ file_path = Path_s2_intro
    /\ \E i \in applied : ~fnmatch(file_path, overrides[i][1].val)
    /\ \E i \in 1..Len(overrides) :
          i \notin applied /\ overrides[i][1] = Str(Pat_s1_ipynb)
    /\ merged # meta

\* C6: the rule set written in any of the three config shapes is normalized
\* to the same sequence of (pattern, values) pairs.
C6_ShapesNormalizeAlike ==
    pc # "start" =>
        \A sh \in Shapes :
            Writable(rules, sh)
                => _iter_metadata_overrides(Written(rules, sh)) = overrides

----------------------------------------------------------------------------
(* Claims about the whole run *)

\* config['sections'] of the run
Sections == GetOr(config, "sections", List(<< >>)).val

DraftSections == {i \in 1..Len(Sections) : IsDraft(Sections[i])}

\* main has left the loop over the sections, or the process has ended in it.
SectionsVisited == pc # "main" /\ todo = << >>

\* What the index shows under each heading of that title: the elements
\* after the heading, up to the next section heading.
BlocksUnder(body, title) ==
    {SubSeq(body, k + 1,
            IF \E n \in (k + 1)..Len(body) : body[n][1] = "h2"
            THEN (CHOOSE n \in (k + 1)..Len(body) :
                     /\ body[n][1] = "h2"
                     /\ \A m \in (k + 1)..(n - 1) : body[m][1] # "h2") - 1
            ELSE Len(body)) :
        k \in {h \in 1..Len(body) : body[h] = Frag("h2", <<title>>)}}

\* The description of a draft section, if it has one, and the notice.
PlaceholderBlock(section) ==
    (IF Truthy(Get(section, "description"))
     THEN <<Frag("description", <<section.val["description"]>>)>> ELSE << >>)
    \o <<Frag("coming_later", << >>)>>

\* C11: a section declared with draft: true is never scanned and leaves
\* exactly one placeholder record and no record of a file of its folder;
\* once create_index has run, the index shows under the section's heading
\* its description and the notice, and nothing else.
C11_DraftSectionPlaceholderOnly ==
    /\ \A i \in 1..Len(todo) :
          todo[i].kind # "section" => ~IsDraft(todo[i].section)
    /\ SectionsVisited =>
          \A i \in DraftSections :
             /\ Cardinality({j \in 1..Len(processed_items) :
                                processed_items[j] = DraftRecord(Sections[i])}) = 1
             /\ \A j \in 1..Len(processed_items) :
                   processed_items[j].val["section_folder"] = FolderOf(Sections[i])
                      => processed_items[j] = DraftRecord(Sections[i])
    /\ (pc \in {"published", "raised"} /\ DraftSections # {}) =>
          /\ IndexHtml \in DOMAIN out_files
          /\ \A i \in DraftSections :
                /\ BlocksUnder(out_files[IndexHtml].body, TitleOf(Sections[i])) # {}
                /\ \A block \in BlocksUnder(out_files[IndexHtml].body,
                                            TitleOf(Sections[i])) :
                      block = PlaceholderBlock(Sections[i])


\* The process has ended: main has returned, sys.exit was called, or an
\* exception nobody catches was raised.
RunEnded == pc \in {"done", "exited", "raised"}

ExitedNonZero == exit_code.kind = "int" /\ exit_code.val # 0

\* The slide reference is a file neither below dir nor at the path as given.
ResolvesNowhere(ref, dir) == PathJoin(dir, ref) \notin fs /\ ref \notin fs

\* The notebooks and markdown files of the folders main scans.
ScannedFiles ==
    UNION {(({p \in FolderGlob(FolderOf(Sections[i]).val,
                               <<"*">> \o Ext_ipynb, fs) :
                 ~Contains(p, Checkpoints)}
             \cup FolderGlob(FolderOf(Sections[i]).val,
                             <<"*", ".", "m", "d">>, fs))
            \cap DOMAIN sources) :
              i \in {j \in 1..Len(Sections) :
                        ~IsDraft(Sections[j]) /\ FolderExists(Sections[j], fs)}}

\* The metadata a scanned file is processed with.
MergedMetadataOf(p) ==
    IF PathSuffix(p) = Ext_ipynb
    THEN apply_metadata_overrides(p, get_notebook_metadata(sources[p]), config)
    ELSE apply_metadata_overrides(
             p,
             IF Truthy(extract_markdown_frontmatter(sources[p]).frontmatter)
             THEN extract_markdown_frontmatter(sources[p]).frontmatter
             ELSE Dict(EmptyDict),
             config)

\* The scanned files whose metadata names slides that are nowhere.
FilesWithMissingSlides ==
    {p \in ScannedFiles :
        /\ Truthy(Get(MergedMetadataOf(p), "slides"))
        /\ ResolvesNowhere(MergedMetadataOf(p).val["slides"].val, PathParent(p))}

RootSlidesMissing ==
    /\ Truthy(Get(config, "slides"))
    /\ ResolvesNowhere(config.val["slides"].val, <<".">>)

\* The declared sections whose slides are nowhere.
SectionsWithMissingSlides ==
    {i \in 1..Len(Sections) :
        /\ Truthy(SlidesOf(Sections[i]))
        /\ ResolvesNowhere(SlidesOf(Sections[i]).val,
                           PathParent(FolderOf(Sections[i]).val))}

\* The section titles create_index embeds slides for and whose slides are
\* nowhere: a title with collected records, not shown as a draft
\* placeholder, whose declaration (the last with that title) names slides.
RenderedTitlesWithMissingSlides ==
    {title \in SectionKeys(processed_items) :
        LET section_items == SectionItems(processed_items, title)
            section_cfg == SectionConfig(config, title)
        IN /\ ~(Len(section_items) = 1
                /\ Truthy(Get(section_items[1], "is_draft")))
           /\ Truthy(Get(section_cfg, "slides"))
           /\ ResolvesNowhere(
                  section_cfg.val["slides"].val,
                  PathParent(section_items[1].val["section_folder"].val))}

Headings(body) ==
    LET h2 == SelectSeq(body, LAMBDA frag : frag[1] = "h2")
    IN [i \in 1..Len(h2) |-> h2[i][2][1]]

\* The titles of the declared sections, in declared order.
DeclaredTitles == [i \in 1..Len(Sections) |-> TitleOf(Sections[i])]

\* The declared titles that have records, in declared order, then the
\* titles of the records that no section declares, in alphabetical order.
DeclaredThenAlphabetical(notebooks) ==
    SelectSeq(DeclaredTitles, LAMBDA title : title \in SectionKeys(notebooks))
    \o SortedTitles(SectionKeys(notebooks) \ Range(DeclaredTitles))

\* C13: in the generated index the sections that have records appear in the
\* order the section list of the config declares them in, followed by the
\* titles the config does not declare, in alphabetical order.
C13_SectionsInDeclaredOrder ==
    (pc = "published" /\ IndexHtml \in DOMAIN out_files)
        => Headings(out_files[IndexHtml].body)
              = DeclaredThenAlphabetical(processed_items)


IsNotebookRecord(item) ==
    ~Truthy(Get(item, "is_draft")) /\ Get(item, "type").kind = "none"

IsMarkdownRecord(item) ==
    ~Truthy(Get(item, "is_draft")) /\ Get(item, "type").kind = "str"

\* Two records that one scan of one folder returned: another run may
\* collect them the other way round.
SameScan(x, y) ==
    /\ x.val["section_folder"] = y.val["section_folder"]
    /\ \/ IsNotebookRecord(x) /\ IsNotebookRecord(y)
       \/ IsMarkdownRecord(x) /\ IsMarkdownRecord(y)

\* The lists of records the runs on the same config and the same source
\* files collect: the records of this run, those of each scan in any order.
OtherScanOrders(items) ==
    {[i \in 1..Len(items) |-> items[q[i]]] :
        q \in {r \in Orderings(1..Len(items)) :
                  \A i, j \in 1..Len(items) :
                     (i < j /\ ~SameScan(items[r[i]], items[r[j]]))
                        => r[i] < r[j]}}

\* C14: the content of the index is the same whatever order the scans of
\* the section folders return the files in: the index this run wrote is the
\* index of every run on the same config and the same source files.
C14_IndexSameForEveryScanOrder ==
    (pc = "published" /\ IndexHtml \in DOMAIN out_files)
        => \A items \in OtherScanOrders(processed_items) :
              notebooks_md(items, config,
                           IO(fs, env.newer, out_files, attempts), env).body
                 = out_files[IndexHtml].body


\* The run looked up a slide reference and found the file nowhere.
SlideSourceMissing ==
    \/ FilesWithMissingSlides # {}
    \/ todo = << >> /\ RenderedTitlesWithMissingSlides # {}
    \/ RootSlidesMissing

\* The run has come to the version-control steps that follow the index.
CameToVersionControl ==
    /\ pc \in {"done", "exited"}
    /\ ~SlideSourceMissing
    /\ Truthy(Get(config, "sections")) \/ HasRootContent(config)

\* The commit and push of the main branch was made and failed.
MainBranchFailed ==
    /\ CameToVersionControl
    /\ args.commit
    /\ ~commit_and_push_main(config, repo, env).ok

\* The distribution branch was built and that failed.
DistributionBranchFailed ==
    /\ CameToVersionControl
    /\ ~MainBranchFailed
    /\ ~create_codespaces_branch(config, args.commit, args.keep_temp,
                                 fs, env).result

\* C15: a run ends with a non-zero status exactly when a declared slide
\* source is missing or, --commit being given, the commit and push of the
\* main branch or of the distribution branch failed; every other run, so
\* every run without --commit in which no slide is missing, ends with
\* status zero.
C15_NonZeroIffMissingSlideOrFailedPublish ==
    RunEnded =>
        /\ ExitedNonZero <=>
              \/ SlideSourceMissing
              \/ args.commit /\ (MainBranchFailed \/ DistributionBranchFailed)
        /\ ~ExitedNonZero => exit_code = Num(0)


\* C16: in a run without --commit no step changes the version-control state
\* of the caller's repository: the branch checked out, what is staged, the
\* commits, the LFS set-up and the patterns declared in .gitattributes.
C16_NoCommitLeavesRepositoryAlone ==
    [][~args.commit => repo' = repo]_vars


\* C17: a run started without --commit makes no git push, of the main
\* branch or of the distribution branch.
C17_NoPushWithoutCommit ==
    ~args.commit => pushes = << >>

\* A run without --commit, in a repository with a remote, that has built
\* the distribution branch in its temporary repository and returned.
C17_Witness ==
    /\ ~args.commit
    /\ pc = "done"
    /\ env.git = "repo" /\ env.remote
    /\ BuildDir \in Dirs(fs)
    /\ exit_code = Num(0)
    /\ pushes = << >>


----------------------------------------------------------------------------
(* Claims about the slide steps *)

\* An attempt has failed: the tool returned a status other than 0, ran
\* into the timeout or raised, or no PDF is there after it.
AttemptFailed(outcome, pdf_existed) ==
    \/ outcome \in {"fail", "timeout", "raise"}
    \/ outcome = "zero" /\ ~pdf_existed

\* The converters that apply on the platform, in the order of the claim.
ApplicableConverters ==
    CASE env.platform = "darwin" -> <<"osascript", "soffice", "unoconv">>
      [] env.platform = "win32" -> <<"pptxtopdf", "soffice", "unoconv">>
      [] OTHER -> <<"soffice", "unoconv">>

\* What a step that converts the deck has done, given the state before it:
\* the converters run are the applicable ones in order up to the first that
\* does not fail, none if a fresh PDF was there, and the step got no PDF
\* exactly when there was no fresh PDF and every applicable attempt failed.
CascadeRan ==
    LET order == ApplicableConverters
        existed == DeckPdf \in fs
        fresh == DeckPdf \in fs /\ DeckPdf \in env.newer
        failed(i) == AttemptFailed(env[order[i]], existed)
        ran == attempts'
    IN /\ \E n \in 0..Len(order) : ran = SubSeq(order, 1, n)
       /\ fresh => ran = << >>
       /\ \A i \in 1..Len(ran) : i < Len(ran) => failed(i)
       /\ \A i \in 1..Len(order) :
             (~fresh /\ \A j \in 1..(i - 1) : failed(j)) => Len(ran) >= i

AllAttemptsFailed ==
    /\ ~(DeckPdf \in fs /\ DeckPdf \in env.newer)
    /\ \A i \in 1..Len(ApplicableConverters) :
          AttemptFailed(env[ApplicableConverters[i]], DeckPdf \in fs)

\* Where generate_slide_embed puts the files of the deck, and how the page
\* refers to them.
DeckOutputDir ==
    IF PathSuffix(file_path) = <<".", "m", "d">> THEN <<".">>
    ELSE PathName(file_path)

\* The download-only box: the presentation copied, no PDF and no thumbnail
\* beside it, and no viewer in the snippet.
DownloadOnly ==
    /\ ret' = Html(<<"download_only",
                     <<PathJoin(DeckOutputDir, PathName(DeckPptx)),
                       PathName(DeckPptx)>> >>)
    /\ DOMAIN out_files' = {PathJoin(DeckOutputDir, PathName(DeckPptx))}
    /\ out_files'[PathJoin(DeckOutputDir, PathName(DeckPptx))]
          = [type |-> "copy", from |-> DeckPptx]

\* C18: convert_pptx_to_pdf tries the applicable converters in the fixed
\* order; a failure, timeout or exception of an attempt leads to the next
\* attempt; no converter is run after one has succeeded; the result is None
\* exactly when every applicable attempt failed and no fresh PDF was there,
\* and generate_slide_embed then copies the presentation and returns a
\* download-only box without a viewer.
C18_ConverterCascade ==
    [][/\ ConvertPptxToPdf =>
             /\ CascadeRan
             /\ (ret' = None) <=> AllAttemptsFailed
             /\ ~AllAttemptsFailed => ret' = Str(DeckPdf)
       /\ GenerateSlideEmbed =>
             /\ CascadeRan
             /\ AllAttemptsFailed => DownloadOnly
             /\ ~AllAttemptsFailed => ret'.val[1] = "slide_embed"]_vars

\* On macOS the three converters were run in order, each failed, and
\* generate_slide_embed returned the download-only box.
C18_Witness ==
    /\ pc = "embedded"
    /\ env.platform = "darwin"
    /\ attempts = <<"osascript", "soffice", "unoconv">>
    /\ DeckPdf \notin fs
    /\ ret.val[1] = "download_only"


----------------------------------------------------------------------------
(* Claims about the data archive *)

DataPatterns == merged.val["data_files"].val

\* The entries on disk that at least one pattern leads to.
MatchedFiles ==
    UNION {{m.at : m \in glob(PathParent(file_path), DataPatterns[i].val, fs)} :
              i \in 1..Len(DataPatterns)}

ArchiveEntries == out_files[ZipPath(file_path)].entries

\* C19: the archive create_data_zip writes holds exactly the files that at
\* least one pattern matches, each source file once even when several
\* patterns match it, and it is written whether or not a pattern matches
\* nothing.
C19_ArchiveHoldsEachMatchedFileOnce ==
    pc = "zipped" =>
        /\ ZipPath(file_path) \in DOMAIN out_files
        /\ {ArchiveEntries[n].file : n \in 1..Len(ArchiveEntries)} = MatchedFiles
        /\ \A n, k \in 1..Len(ArchiveEntries) :
              ArchiveEntries[n].file = ArchiveEntries[k].file => n = k


----------------------------------------------------------------------------
(* Claims about process_markdown *)

\* The file opens with a front matter block, and a line of the block is
\* not YAML.
MalformedFrontMatter ==
    LET content == sources[file_path]
        closing == {k \in 3..Len(content) : content[k] = Fence}
    IN /\ Len(content) > 0 /\ content[1] = Fence
       /\ closing # {}
       /\ \E n \in 2..((CHOOSE k \in closing : \A m \in closing : k <= m) - 1) :
             content[n][1] = "bad"

\* What the override rules that match the file produce from nothing.
RulesAlone ==
    apply_metadata_overrides(file_path, Dict(EmptyDict), config)

PageHtml == PathJoin(PathName(PathParent(file_path)),
                     PathStem(file_path) \o Ext_html)

\* The title of the merged metadata, the base name of the file without one.
TitleOrBaseName ==
    IF "title" \in DOMAIN merged.val THEN merged.val["title"]
    ELSE Str(PathStem(file_path))

\* process_markdown went on with empty own metadata, wrote the page and
\* returned a record of type markdown.
ProceededWithEmptyMetadata ==
    /\ pc = "rendered"
    /\ meta = Dict(EmptyDict)
    /\ merged = RulesAlone
    /\ PageHtml \in DOMAIN out_files
    /\ out_files[PageHtml].type = "page"
    /\ out_files[PageHtml].title = TitleOrBaseName
    /\ ret.kind = "dict"
    /\ ret.val["type"] = Str(<<"m", "a", "r", "k", "d", "o", "w", "n">>)
    /\ ret.val["title"] = TitleOrBaseName

\* C20 as stated: process_markdown on a file whose front matter block fails
\* to parse does not fail and does not skip the file: it proceeds with empty
\* own metadata (the merged metadata is what the matching override rules
\* alone produce, the title the base name by default), writes the page and
\* returns a record of type markdown.
C20_MalformedFrontMatterProceeds ==
    (pc \in {"rendered", "exited"} /\ MalformedFrontMatter)
        => ProceededWithEmptyMetadata

\* The slides the override rules give the file are nowhere.
RulesGiveMissingSlides ==
    /\ Truthy(Get(RulesAlone, "slides"))
    /\ ResolvesNowhere(RulesAlone.val["slides"].val, PathParent(file_path))

\* C20, amended: on a file whose front matter block fails to parse,
\* process_markdown proceeds with empty own metadata, writes the page and
\* returns a record of type markdown, unless the override rules that match
\* the file give it slides that are nowhere: then the process exits with
\* status 1, and no page is written.
C20_MalformedFrontMatterProceedsUnlessSlidesMissing ==
    (pc \in {"rendered", "exited"} /\ MalformedFrontMatter)
        => IF RulesGiveMissingSlides
           THEN /\ pc = "exited"
                /\ exit_code = Num(1)
                /\ meta = Dict(EmptyDict)
                /\ merged = RulesAlone
                /\ PageHtml \notin DOMAIN out_files
           ELSE ProceededWithEmptyMetadata

\* A file whose block holds a title line and a line that is not YAML, under
\* a rule that gives it another title: the page carries the rule's title.
C20_Witness ==
    /\ pc = "rendered"
    /\ MalformedFrontMatter
    /\ \E n \in 1..Len(sources[file_path]) : sources[file_path][n][1] = "kv"
    /\ applied # {}
    /\ ProceededWithEmptyMetadata
    /\ out_files[PageHtml].title = Str(<<"t">>)


----------------------------------------------------------------------------
(* Claims about the table of contents *)

\* The entries of the table of contents that was returned
TocEntries == IF ret.val = << >> THEN << >> ELSE Tail(ret.val)

\* The texts of the second-level headings of the body, in document order
SecondLevelHeadings ==
    LET h2 == SelectSeq(sources[file_path], LAMBDA line : line[1] = "h2")
    IN [i \in 1..Len(h2) |-> h2[i][2]]

LinksPresent == Truthy(Get(merged, "links"))

\* C21: the table of contents has one entry per second-level heading of the
\* body, in document order, preceded by a "Useful Links" entry exactly when
\* links are present; it is empty when there are no headings and no links;
\* the anchor of an entry is its heading with the characters that are not
\* word characters, white space or hyphens removed, lowercased, and each
\* space replaced by a hyphen.
C21_TocEntryPerHeadingWithAnchor ==
    pc = "listed" =>
        /\ [i \in 1..Len(TocEntries) |-> TocEntries[i][2]]
              = (IF LinksPresent THEN <<UsefulLinks>> ELSE << >>)
                \o SecondLevelHeadings
        /\ (SecondLevelHeadings = << >> /\ ~LinksPresent) => ret.val = << >>
        /\ \A i \in 1..Len(TocEntries) :
              TocEntries[i][3] = AnchorUnstripped(TocEntries[i][2])


----------------------------------------------------------------------------
(* Claims about the items of the index *)

\* The entry of config['sections'] a record was collected under
SectionCollectedUnder(item) ==
    Sections[CHOOSE i \in 1..Len(Sections) :
                 /\ ~IsDraft(Sections[i])
                 /\ FolderOf(Sections[i]) = Get(item, "section_folder")]

\* The records main collected from files
FileRecords == {item \in Range(processed_items) : ~Truthy(Get(item, "is_draft"))}

\* The fragments the index holds for a record: from its heading up to the
\* next heading
ItemBlock(item) ==
    LET body == IndexBody
        isHeading(f) == f[1] \in {"h2", "h3_page", "h3_colab"}
        heading ==
            CHOOSE i \in 1..Len(body) :
                \/ body[i][1] = "h3_page" /\ IsMarkdown(item)
                      /\ body[i][2][3] = item.val["html_file"]
                \/ body[i][1] = "h3_colab" /\ ~IsMarkdown(item)
                      /\ body[i][2][3] = item.val["exercise_file"]
        later == {i \in (heading + 1)..Len(body) : isHeading(body[i])}
        last == IF later = {} THEN Len(body)
                ELSE (CHOOSE i \in later : \A j \in later : i <= j) - 1
    IN SubSeq(body, heading, last)

HasSlideLink(item) ==
    \E i \in 1..Len(ItemBlock(item)) :
        ItemBlock(item)[i] = Frag("slides", <<item.val["slides"]>>)

IndexPublished == pc = "published" /\ IndexHtml \in DOMAIN out_files

\* C22: in the index an item has a slide link of its own if and only if it
\* has a slide reference and that reference differs from the slide reference
\* of the section it was collected under.
C22_OwnSlideLinkIffDiffersFromSection ==
    IndexPublished =>
        \A item \in FileRecords :
            HasSlideLink(item)
                <=> /\ Truthy(Get(item, "slides"))
                    /\ Get(item, "slides") # SlidesOf(SectionCollectedUnder(item))

\* The index of a run in which a record names the slides of its section,
\* another record of that section names other slides, and a third none.
C22_Witness ==
    /\ IndexPublished
    /\ \E a, b, c \in FileRecords :
          /\ Truthy(Get(a, "slides"))
          /\ Get(a, "slides") = SlidesOf(SectionCollectedUnder(a))
          /\ ~HasSlideLink(a)
          /\ SectionCollectedUnder(b) = SectionCollectedUnder(a)
          /\ Truthy(Get(b, "slides"))
          /\ HasSlideLink(b)
          /\ ~Truthy(Get(c, "slides"))
          /\ ~HasSlideLink(c)


----------------------------------------------------------------------------
(* Claims about the version-control steps *)

MainBranch == GetOr(config, "github_branch", Str(<<"m", "a", "i", "n">>)).val
DistributionBranch ==
    GetOr(config, "notebooks_branch",
          Str(<<"c", "o", "d", "e", "s", "p", "a", "c", "e", "s">>)).val

\* C23: in a run with --commit the commit and push of the main branch is
\* over before the staging of the distribution branch begins; when the
\* commit or push of the main branch fails the process exits with status 1,
\* the build directory is not prepared and the distribution branch is
\* neither committed nor pushed.
C23_MainBranchBeforeDistribution ==
    /\ [][/\ (args.commit /\ (PrepareCodespacesBuild \/ CreateCodespacesBranch))
              => /\ pc \in {"committed", "prepared"}
                 /\ env.git # "none" => pushes = <<MainBranch>>
          /\ (CommitAndPushMain /\ ~commit_and_push_main(config, repo, env).ok)
              => /\ pc' = "exited"
                 /\ exit_code' = Num(1)
                 /\ fs' = fs
                 /\ DistributionBranch \notin Range(pushes')]_vars
    /\ [](pc = "exited" => (~ENABLED PrepareCodespacesBuild
                            /\ ~ENABLED CreateCodespacesBranch))

\* A run with --commit that pushed the main branch and then the
\* distribution branch.
C23_Witness ==
    /\ args.commit
    /\ pc = "done"
    /\ BuildDir \in Dirs(fs)
    /\ pushes = <<MainBranch, DistributionBranch>>


\* C24: whenever commit_and_push_main returns, with success or with failure,
\* the branch checked out in the caller's repository is the branch that was
\* checked out before the call.
C24_BranchRestoredOnEveryReturn ==
    [][CommitAndPushMain => repo'.branch = repo.branch]_vars


\* create_codespaces_branch came to create its temporary directory: the run
\* is in a git repository with a remote and the build directory is there.
TempDirCreated ==
    /\ env.git # "none"
    /\ env.remote
    /\ BuildDir \in Dirs(fs)

BranchReturned == pc \in {"done", "exited"}

\* C25: on every return of create_codespaces_branch after the temporary
\* directory was created, the directory has been removed if --keep-temp was
\* not given and still exists if it was given.
C25_TempDirKeptIffKeepTemp ==
    (BranchReturned /\ TempDirCreated) => (TmpDir \in fs <=> args.keep_temp)

\* The push from the temporary repository failed under --keep-temp and the
\* directory is still there.
C25_Witness ==
    /\ pc = "exited"
    /\ TempDirCreated
    /\ args.commit /\ args.keep_temp
    /\ env.tmp_init = "ok" /\ env.tmp_commit # "fail" /\ env.tmp_push # "ok"
    /\ TmpDir \in fs


----------------------------------------------------------------------------
(* Claims about the two variants of a notebook *)

\* C26: in the exercise variant every code cell has empty outputs and a null
\* execution count and every cell not tagged "solution" keeps its source;
\* producing the exercise variant leaves the cells of the answers variant
\* untouched: each original cell keeps its source and its outputs.
C26_ExerciseClearedAnswersUntouched ==
    NotebooksWritten =>
        /\ \A j \in 1..Len(ExerciseOut) :
              ExerciseOut[j].cell_type = "code"
                 => /\ ExerciseOut[j].outputs = << >>
                    /\ ExerciseOut[j].execution_count = None
        /\ Len(ExerciseOut) = Shift + Len(notebook.cells)
        /\ \A i \in (1..Len(notebook.cells)) \ SolutionPositions :
              ExerciseOut[Shift + i].source = notebook.cells[i].source
        /\ \A i \in 1..Len(notebook.cells) :
              /\ AnswersOut[Shift + i].source = notebook.cells[i].source
              /\ AnswersOut[Shift + i].outputs = notebook.cells[i].outputs
              /\ AnswersOut[Shift + i].execution_count
                    = notebook.cells[i].execution_count

\* A notebook with an executed code cell and a solution cell was written
\* with setup cells: the code cell is cleared in the exercise variant and as
\* it was in the answers variant.
C26_Witness ==
    /\ pc = "processed"
    /\ NotebooksWritten
    /\ Shift > 0
    /\ \E i \in (1..Len(notebook.cells)) \ SolutionPositions :
          /\ notebook.cells[i].cell_type = "code"
          /\ notebook.cells[i].outputs # << >>
          /\ ExerciseOut[Shift + i].outputs = << >>
          /\ ExerciseOut[Shift + i].source = notebook.cells[i].source
          /\ AnswersOut[Shift + i].outputs = notebook.cells[i].outputs
    /\ SolutionPositions # {}


\* The path of the notebook's data archive below the output directory
DataZipPath ==
    PathName(PathParent(file_path)) \o Slash \o PathStem(file_path)
        \o Ext_data_zip

\* The archives written below the output directory
ArchivesWritten == {p \in DOMAIN out_files : out_files[p].type = "zip"}

\* The download-and-extract cells of a variant that fetch the archive
DownloadCellsNaming(cells, zip_name) ==
    {j \in 1..Len(cells) :
        /\ Role(cells[j]) = "download"
        /\ Line("urllib.request.urlretrieve(url, '{}')", <<zip_name>>)
              \in Range(cells[j].source)}

\* C27: for a processed notebook the summary record carries a data-zip path
\* if and only if the archive was written at that path in the section output
\* directory, and if and only if the download-and-extract setup cell naming
\* that archive is in both variants.
C27_DataArchiveFactsAgree ==
    (pc = "processed" /\ ret # None) =>
        LET carried == Truthy(ret.val["data_file"])
        IN /\ carried => ret.val["data_file"] = Str(DataZipPath)
           /\ carried <=> ArchivesWritten = {DataZipPath}
           /\ ~carried => ArchivesWritten = {}
           /\ carried <=>
                 DownloadCellsNaming(ExerciseOut, PathName(DataZipPath)) # {}
           /\ carried <=>
                 DownloadCellsNaming(AnswersOut, PathName(DataZipPath)) # {}
           /\ ~carried =>
                 "download" \notin
                     Range(Roles(ExerciseOut)) \cup Range(Roles(AnswersOut))

\* A notebook with data files was processed: the record names the archive,
\* the archive is written and both variants fetch it.
C27_Witness ==
    /\ pc = "processed"
    /\ ret # None
    /\ ret.val["data_file"] = Str(DataZipPath)
    /\ ArchivesWritten = {DataZipPath}
    /\ DownloadCellsNaming(ExerciseOut, PathName(DataZipPath)) # {}
    /\ DownloadCellsNaming(AnswersOut, PathName(DataZipPath)) # {}


\* How often a section heading with the title stands in the index
HeadingCount(title) ==
    Cardinality({k \in 1..Len(IndexBody) : IndexBody[k] = Frag("h2", <<title>>)})

\* The places of the index where a record is rendered: the heading of an
\* item, or the notice of a draft section.
RenderedAt(item) ==
    IF Truthy(Get(item, "is_draft"))
    THEN {k \in 2..Len(IndexBody) :
             /\ IndexBody[k] = Frag("coming_later", << >>)
             /\ \E h \in 1..(k - 1) :
                   /\ IndexBody[h] = Frag("h2", <<item.val["section"]>>)
                   /\ \A m \in (h + 1)..(k - 1) : IndexBody[m][1] # "h2"}
    ELSE {k \in 1..Len(IndexBody) :
             \/ IndexBody[k][1] = "h3_page" /\ IsMarkdown(item)
                   /\ IndexBody[k][2][3] = item.val["html_file"]
             \/ IndexBody[k][1] = "h3_colab" /\ ~IsMarkdown(item)
                   /\ IndexBody[k][2][3] = item.val["exercise_file"]}

\* C28: the index has exactly one heading per section title that has at
\* least one record, no other section heading, and every record is
\* rendered under exactly one section heading.
C28_OneHeadingPerTitleOneBlockPerRecord ==
    IndexPublished =>
        /\ \A title \in SectionKeys(processed_items) : HeadingCount(title) = 1
        /\ Range(Headings(IndexBody)) = SectionKeys(processed_items)
        /\ \A item \in Range(processed_items) : Cardinality(RenderedAt(item)) = 1


\* How many fragments of a kind the index holds for a record
FragCount(item, kind) ==
    Cardinality({k \in 1..Len(ItemBlock(item)) : ItemBlock(item)[k][1] = kind})

\* C29: in the fragments of a rendered item the list markup is balanced: a
\* closing </ul> is there only when an opening <ul> was emitted for the
\* item's links, so an item without links contributes neither tag.
C29_ListMarkupBalanced ==
    IndexPublished =>
        \A item \in FileRecords :
            /\ FragCount(item, "/ul") = FragCount(item, "ul")
            /\ ~Truthy(Get(item, "links"))
                  => FragCount(item, "ul") = 0 /\ FragCount(item, "/ul") = 0


----------------------------------------------------------------------------
(* Claims about the index file of a run *)

\* The run collected a record or the config has root-level content.
SomethingToIndex == Len(processed_items) > 0 \/ HasRootContent(config)

\* C30: when a run ends normally, index.html exists in the output directory
\* if and only if at least one record was collected or root-level slides,
\* data files or links are configured; the output directory is emptied at
\* the start of every run, so the index of an earlier run does not survive.
C30_IndexIffSomethingToIndex ==
    /\ pc = "done" => (IndexHtml \in DOMAIN out_files <=> SomethingToIndex)
    /\ pc # "main" =>
          (IndexHtml \in DOMAIN out_files
              => out_files[IndexHtml] # StaleIndex[IndexHtml])

\* A run with nothing to publish ended normally and the index an earlier
\* run had left is gone.
C30_Witness ==
    /\ pc = "done"
    /\ exit_code = Num(0)
    /\ ~SomethingToIndex
    /\ IndexHtml \notin DOMAIN out_files

============================================================================
